---- MODULE Spec2Model ----
(***************************************************************************)
(* CRAFT Mini App backend: the caps ledger, the two-level referral         *)
(* program, achievements, the shop checkout and the news subscription,     *)
(* modelled from src/api (ai.py, routes_shop.py, routes_user.py,           *)
(* routes_university.py, routes_forms.py, routes_admin.py, routes_bot.py). *)
(*                                                                         *)
(* The database is the state.  users is the users table in id order (ids   *)
(* are SERIAL, so the n-th registered user has id n); the other variables  *)
(* are the tables the handlers read and write.  The SYSTEM row that        *)
(* init_database seeds is not a Mini App user and is left out.             *)
(***************************************************************************)
EXTENDS Integers, Sequences, FiniteSets, TLC

VARIABLES
    users,          \* users table: Seq of [tg, uid, referrer, bal, earned, spent, level, ai_req]
    pending,        \* pending_referrals: set of [referred, referrer, processed] (telegram ids)
    referrals,      \* referrals: set of [referrer, referred, level] (user ids)
    history,        \* balance_history: Seq of [user, amount, op, after, live]
    earned,         \* user_achievements: Seq of rows <<user id, achievement code>>
    cart,           \* user_cart: set of <<user id, item id>>
    purchases,      \* shop_purchases: Seq of [user, item, price]
    forms,          \* applications and sos_requests: set of <<user id, "app" | "sos">> with a row
    progress,       \* university_progress rows with completed = TRUE: set of <<user id, lesson id>>
    news,           \* news_subscriptions: set of [user, active]
    sessions,       \* user_ai_sessions: function user id -> [count, blocked, expires]
    convs,          \* ai_conversations: Seq of [user, kind, caps]
    outbox,         \* Telegram messages sent by the last request: set of [to, kind]
    last,           \* the last request and its response
    fuel,           \* number of requests the behaviour may still handle
    req,            \* requests in flight (concurrent specification): function slot -> record
    rate_limits,    \* auth._rate_limits: function key -> Seq of timestamps
    now,            \* time.time() of the process, in seconds
    calls           \* the check_rate_limit calls made so far: Seq of [key, t, ok]

vars == <<users, pending, referrals, history, earned, cart, purchases, forms,
          progress, news, sessions, convs, outbox, last, fuel, req,
          rate_limits, now, calls>>

limiter == <<rate_limits, now, calls>>

dbvars == <<users, pending, referrals, history, earned, cart, purchases, forms,
            progress, news, sessions, convs>>

-----------------------------------------------------------------------------
(* Bounds of the model *)

MaxOps == 4                 \* requests per behaviour of Spec
MaxShopOps == 6             \* requests per behaviour of SpecShop
MaxRefOps == 4              \* requests per behaviour of SpecReferral
MaxRaceOps == 5             \* steps per behaviour of SpecRace

-----------------------------------------------------------------------------
(* Program constants *)

STARTING_UID == 666
MAX_UID == 99999
CAPS_PER_AI_REQUEST == 5
MAX_RAPID_MESSAGES == 6
NEWS_DAILY_COST == 10
BASE_START == 100
REFERRED_START == 150
L1_BONUS == 30
L2_BONUS == 15
L1_PERCENT == 5
L2_PERCENT == 2
LESSON_REWARD == 15

NoUser == 0                 \* NULL referrer_id / no row found
NoUid == 0                  \* referrer_uid not passed

\* Telegram ids of the people who may use the bot and the Mini App.
TgIds == {101, 102, 103}

\* referrer_uid values a client may pass to /api/init.
UidInputs == {NoUid} \cup (STARTING_UID .. (STARTING_UID + Cardinality(TgIds) - 1))

\* shop_items seeded by init_database (three of the six rows): id -> price_caps.
Items == {1, 4, 6}
Price(i) == CASE i = 1 -> 50 [] i = 4 -> 200 [] i = 6 -> 30

Lessons == {1}

\* Keys check_rate_limit is called with: f'ai:{telegram_id}' and
\* f'form:{telegram_id}' of one telegram id.
RateKeys == {"ai:101", "form:101"}

\* achievements seeded by init_database: code -> reward_caps.  Codes that
\* check_achievements or create_user look up; 0 stands for "no such row".
Reward(code) ==
    CASE code = "first_beer" -> 50
      [] code = "sos_helper" -> 30
      [] code = "application_sender" -> 25
      [] OTHER -> 0

InCatalog(code) == code \in {"first_beer", "sos_helper", "application_sender"}

-----------------------------------------------------------------------------
(* Helpers *)

Max(a, b) == IF a >= b THEN a ELSE b

Ids(us) == 1 .. Len(us)

RECURSIVE SumSeq(_, _)
\* Sum of f[i] over i in 1..n.
SumSeq(f, n) == IF n = 0 THEN 0 ELSE f[n] + SumSeq(f, n - 1)

\* get_user / SELECT ... WHERE telegram_id = %s: the id of the row, or NoUser.
UserByTg(us, tg) ==
    IF \E i \in Ids(us) : us[i].tg = tg
    THEN CHOOSE i \in Ids(us) : us[i].tg = tg
    ELSE NoUser

\* SELECT ... WHERE system_uid = %s.
UserByUid(us, uid) ==
    IF \E i \in Ids(us) : us[i].uid = uid
    THEN CHOOSE i \in Ids(us) : us[i].uid = uid
    ELSE NoUser

\* A balance_history row.  live is the caps_balance the database holds right
\* after the row's balance update (kept beside the logged balance_after).
Row(id, amount, op, after, live) ==
    [user |-> id, amount |-> amount, op |-> op, after |-> after, live |-> live]

\* (variant: a credit that leaves total_earned_caps alone)
CreditUserBalanceOnly(us, id, a) ==
    [us EXCEPT ![id].bal = @ + a]

\* UPDATE users SET caps_balance = caps_balance + a, total_earned_caps = ... + a
CreditUser(us, id, a) ==
    [us EXCEPT ![id].bal = @ + a, ![id].earned = @ + a]

\* UPDATE users SET caps_balance = caps_balance - a, total_spent_caps = ... + a
DebitUser(us, id, a) ==
    [us EXCEPT ![id].bal = @ - a, ![id].spent = @ + a]

\* The pattern used by every credit path: update, re-read the balance, log it.
\* st is [u |-> users, h |-> history].
CreditLogged(st, id, a, op) ==
    LET us2 == CreditUser(st.u, id, a)
    IN  [u |-> us2, h |-> Append(st.h, Row(id, a, op, us2[id].bal, us2[id].bal))]

\* The same for a debit that re-reads the balance before logging.
DebitLogged(st, id, a, op) ==
    LET us2 == DebitUser(st.u, id, a)
    IN  [u |-> us2, h |-> Append(st.h, Row(id, -a, op, us2[id].bal, us2[id].bal))]

-----------------------------------------------------------------------------
(* check_achievements (ai.py) *)

Opt(cond, code) == IF cond THEN <<code>> ELSE <<>>

\* The codes check_achievements selects for user id, in the order the code
\* appends them.  ro holds the tables it only reads.  craft_veteran (account
\* older than 30 days) has no row in the achievements table and is left out.
Checks(us, id, ro) ==
    LET ref_count == Cardinality({r \in ro.referrals : r.referrer = id /\ r.level = 1})
        lessons_done == Cardinality({p \in ro.progress : p[1] = id})
        total_lessons == Cardinality(Lessons)
        ai_messages == us[id].ai_req
        purchases_count == Cardinality({k \in 1..Len(ro.purchases) : ro.purchases[k].user = id})
        sos_count == IF <<id, "sos">> \in ro.forms THEN 1 ELSE 0
        app_count == IF <<id, "app">> \in ro.forms THEN 1 ELSE 0
    IN  <<"first_login">>
        \o Opt(ref_count >= 1, "first_referral")
        \o Opt(ref_count >= 5, "referral_master")
        \o Opt(ai_messages >= 10, "ai_chat_10")
        \o Opt(ai_messages >= 30, "chatty")
        \o Opt(ai_messages >= 100, "ai_addict")
        \o Opt(lessons_done >= total_lessons /\ total_lessons > 0, "university_graduate")
        \o Opt(lessons_done >= 1, "first_lesson")
        \o Opt(us[id].bal >= 1000, "balance_1000")
        \o Opt(us[id].bal >= 1000, "thousander")
        \o Opt(sos_count >= 1, "sos_helper")
        \o Opt(app_count >= 1, "application_sender")
        \o Opt(app_count >= 1, "application_sent")
        \o Opt(us[id].level = "vip", "vip_person")
        \o Opt(purchases_count >= 1, "application_sender")
        \o Opt(ro.sessions[id].blocked, "blocked")

\* (variant: a plain INSERT into a table without the UNIQUE constraint)
InsertAchievementAlways(e, row) == Append(e, row)

\* INSERT INTO user_achievements ... ON CONFLICT DO NOTHING under
\* UNIQUE(user_id, achievement_id).
InsertAchievement(e, row) ==
    IF \E k \in 1..Len(e) : e[k] = row THEN e ELSE Append(e, row)

\* earned_codes: the codes of the user's user_achievements rows.
EarnedCodes(e, id) == {e[k][2] : k \in {j \in 1..Len(e) : e[j][1] = id}}

RECURSIVE AwardLoop(_, _, _, _)
\* for code in checks: if code not in earned_codes: look the achievement up,
\* INSERT ... ON CONFLICT DO NOTHING, credit and log its reward.  earned_codes
\* is the set read before the loop.  st is [u, h, e].
AwardLoop(st, id, checks, earned_codes) ==
    IF checks = <<>> THEN st
    ELSE LET code == Head(checks)
             st2 == IF code \notin earned_codes /\ InCatalog(code)
                    THEN LET e2 == InsertAchievement(st.e, <<id, code>>)
                         IN  IF Reward(code) > 0
                             THEN LET c == CreditLogged([u |-> st.u, h |-> st.h], id,
                                                        Reward(code), "achievement_reward")
                                  IN  [u |-> c.u, h |-> c.h, e |-> e2]
                             ELSE [st EXCEPT !.e = e2]
                    ELSE st
         IN  AwardLoop(st2, id, Tail(checks), earned_codes)

\* check_achievements(user_id) on its own connection.  id = NoUser or an
\* unknown id returns at once.
CheckAchievements(st, id, ro) ==
    IF id \notin Ids(st.u) THEN st
    ELSE AwardLoop(st, id, Checks(st.u, id, ro),
                   EarnedCodes(st.e, id))

-----------------------------------------------------------------------------
(* Requests and responses *)

\* The last request handled: its endpoint, the telegram id and user id it was
\* for, whether it answered success, its error, and two result values.
Resp(op, tg, id, ok, err, a, b) ==
    [op |-> op, tg |-> tg, user |-> id, ok |-> ok, err |-> err, a |-> a, b |-> b]

RO(rf, pg, pu, fm, se) ==
    [referrals |-> rf, progress |-> pg, purchases |-> pu, forms |-> fm, sessions |-> se]

\* A user_ai_sessions row as inserted: message_count 0, is_blocked FALSE,
\* block_expires_at NULL (expires tells whether block_expires_at is set).
NewSession == [count |-> 0, blocked |-> FALSE, expires |-> FALSE]

\* UPDATE user_ai_sessions SET is_blocked = FALSE, message_count = 0,
\* block_expires_at = NULL: the statement of the lazy expiry and of the
\* admin unblock.
Unblocked(s) == [s EXCEPT !.blocked = FALSE, !.count = 0, !.expires = FALSE]

\* (variant: what was written before the failure stays)
RolledBackNever(before, written) == written

\* A request that ends without conn.commit() (autocommit is off): the table
\* is as before the request, whatever the request had written to it.
RolledBack(before, written) == before

NoPending == [referred |-> 0, referrer |-> 0, processed |-> TRUE]

-----------------------------------------------------------------------------
(* create_user (ai.py) *)

\* Generate next UID: the largest numeric system_uid plus one, or STARTING_UID.
NextUid(us) ==
    IF us = <<>> THEN STARTING_UID
    ELSE (CHOOSE m \in {us[i].uid : i \in Ids(us)} :
              \A i \in Ids(us) : us[i].uid <= m) + 1

\* (variant: an unregistered bot referrer falls back to referrer_uid)
ResolveReferrerFallback(us, bot, referrer_uid) ==
    IF bot # 0 /\ UserByTg(us, bot) # NoUser THEN UserByTg(us, bot)
    ELSE IF referrer_uid # NoUid THEN UserByUid(us, referrer_uid)
    ELSE NoUser

\* (variant: the referrer is looked up after the new row is inserted, so a
\* client passing the uid it is about to get is attributed to itself)
ResolveReferrerSelf(us, bot, referrer_uid) ==
    IF bot # 0 THEN UserByTg(us, bot)
    ELSE IF referrer_uid = NoUid THEN NoUser
    ELSE IF referrer_uid = NextUid(us) THEN Len(us) + 1
    ELSE UserByUid(us, referrer_uid)

\* Determine referrer: the pending bot referral when there is one, else the
\* explicit referrer_uid.  bot is the pending row's referrer telegram id
\* (0 = no pending row).
ResolveReferrer(us, bot, referrer_uid) ==
    IF bot # 0 THEN UserByTg(us, bot)
    ELSE IF referrer_uid # NoUid THEN UserByUid(us, referrer_uid)
    ELSE NoUser

\* (variant: a referred user starts with the base balance)
StartingBalanceBase(referrer_id) == BASE_START

\* starting_balance = 150 if referrer_id else 100
StartingBalance(referrer_id) == IF referrer_id # NoUser THEN REFERRED_START ELSE BASE_START

\* (variant: the level-2 bonus is not paid)
ReferralRewardsNoL2(st, referrer_id) ==
    IF referrer_id = NoUser THEN st
    ELSE CreditLogged(st, referrer_id, L1_BONUS, "referral_bonus")

\* Process referral rewards: level-1 bonus to the referrer, level-2 bonus to
\* the referrer's referrer, each updated, re-read and logged.
ReferralRewards(st, referrer_id) ==
    IF referrer_id = NoUser THEN st
    ELSE LET s1 == CreditLogged(st, referrer_id, L1_BONUS, "referral_bonus")
             l2 == s1.u[referrer_id].referrer
         IN  IF l2 # NoUser THEN CreditLogged(s1, l2, L2_BONUS, "referral_bonus") ELSE s1

\* (variant: only the level-1 edge is inserted)
ReferralEdgesL1Only(us, referrer_id, user_id) ==
    IF referrer_id = NoUser THEN {}
    ELSE {[referrer |-> referrer_id, referred |-> user_id, level |-> 1]}

\* INSERT INTO referrals: the level-1 edge from the referrer and, when the
\* referrer has a referrer_id, the level-2 edge from that user.
ReferralEdges(us, referrer_id, user_id) ==
    IF referrer_id = NoUser THEN {}
    ELSE {[referrer |-> referrer_id, referred |-> user_id, level |-> 1]}
         \cup (IF us[referrer_id].referrer # NoUser
               THEN {[referrer |-> us[referrer_id].referrer, referred |-> user_id, level |-> 2]}
               ELSE {})

\* Award first login achievement: the first_beer row is inserted and its
\* reward credited to the new user; this credit writes no balance_history row.
FirstBeer(us, user_id) ==
    IF InCatalog("first_beer") /\ Reward("first_beer") > 0
    THEN CreditUser(us, user_id, Reward("first_beer"))
    ELSE us

\* (variant: only the row that was fetched is marked)
MarkProcessedFetched(pd, tg, bot) ==
    IF bot # 0
    THEN {IF p.referred = tg /\ p.referrer = bot THEN [p EXCEPT !.processed = TRUE] ELSE p : p \in pd}
    ELSE pd

\* `if pending:` UPDATE pending_referrals SET processed = TRUE WHERE
\* referred_user_id = tg: every row of the registering telegram id.
MarkProcessed(pd, tg, bot) ==
    IF bot # 0
    THEN {IF p.referred = tg THEN [p EXCEPT !.processed = TRUE] ELSE p : p \in pd}
    ELSE pd

\* create_user for a telegram id that has no users row.  pk is the pending
\* row that fetchone() returned (NoPending when there is none), next_uid_num
\* the number the "Generate next UID" query gave.
CreateUserWith(tg, referrer_uid, pk, fault, next_uid_num) ==
    LET bot == pk.referrer
        pending2 == MarkProcessed(pending, tg, bot)
    IN  IF next_uid_num > MAX_UID
        THEN /\ last' = Resp("init", tg, NoUser, FALSE, "limit", referrer_uid, 0)
             /\ outbox' = {}
             /\ UNCHANGED dbvars
        ELSE LET referrer_id == ResolveReferrer(users, bot, referrer_uid)
                 starting_balance == StartingBalance(referrer_id)
                 user_id == Len(users) + 1
                 row == [tg |-> tg, uid |-> next_uid_num, referrer |-> referrer_id,
                         bal |-> starting_balance, earned |-> 0, spent |-> 0,
                         level |-> "basic", ai_req |-> 0]
                 st0 == [u |-> Append(users, row),
                         h |-> Append(history, Row(user_id, starting_balance, "registration_bonus",
                                                   starting_balance, starting_balance))]
                 st1 == ReferralRewards(st0, referrer_id)
                 us2 == FirstBeer(st1.u, user_id)
                 refs2 == referrals \cup ReferralEdges(st0.u, referrer_id, user_id)
                 sess2 == [i \in 1..user_id |-> IF i = user_id THEN NewSession ELSE sessions[i]]
                 e2 == IF InCatalog("first_beer")
                       THEN InsertAchievement(earned, <<user_id, "first_beer">>)
                       ELSE earned
                 \* after the commit: check_achievements(referrer_id)
                 st3 == CheckAchievements([u |-> us2, h |-> st1.h, e |-> e2], referrer_id,
                                          RO(refs2, progress, purchases, forms, sess2))
                 notices == IF referrer_id # NoUser
                            THEN {[to |-> st0.u[referrer_id].tg, kind |-> "friend_registered"],
                                  [to |-> tg, kind |-> "welcome_referred"]}
                            ELSE {}
             IN  IF fault # "ok"
                 THEN \* except Exception: no commit was made
                      /\ users' = RolledBack(users, us2)
                      /\ history' = RolledBack(history, st1.h)
                      /\ earned' = RolledBack(earned, e2)
                      /\ pending' = RolledBack(pending, pending2)
                      /\ referrals' = RolledBack(referrals, refs2)
                      /\ sessions' = RolledBack(sessions, sess2)
                      /\ outbox' = IF fault = "late_error" THEN notices ELSE {}
                      /\ last' = Resp("init", tg, NoUser, FALSE, "internal", referrer_uid, 0)
                      /\ UNCHANGED <<cart, purchases, forms, progress, news, convs>>
                 ELSE /\ users' = st3.u
                      /\ history' = st3.h
                      /\ earned' = st3.e
                      /\ pending' = pending2
                      /\ referrals' = refs2
                      /\ sessions' = sess2
                      /\ outbox' = notices
                      /\ last' = Resp("init", tg, user_id, TRUE, "", referrer_uid, starting_balance)
                      /\ UNCHANGED <<cart, purchases, forms, progress, news, convs>>

\* create_user with nothing committed between its statements.
CreateUserAt(tg, referrer_uid, pk, fault) ==
    CreateUserWith(tg, referrer_uid, pk, fault, NextUid(users))

\* create_user with every statement succeeding.
CreateUser(tg, referrer_uid, pk) == CreateUserAt(tg, referrer_uid, pk, "ok")

\* Telegram ids are interchangeable, so new users are taken in increasing
\* order of telegram id: every behaviour is one of these up to renaming.
NextToRegister(tg) == \A t \in TgIds : t < tg => UserByTg(users, t) # NoUser

\* POST /api/init (routes_user.py): an existing user is re-evaluated for
\* achievements, a new telegram id goes through create_user.
ApiInitAt(tg, referrer_uid, fault) ==
    /\ fuel > 0
    /\ fuel' = fuel - 1
    /\ UNCHANGED limiter
    /\ UNCHANGED req
    /\ LET id == UserByTg(users, tg)
       IN  IF id # NoUser
           THEN LET st == CheckAchievements([u |-> users, h |-> history, e |-> earned], id,
                                            RO(referrals, progress, purchases, forms, sessions))
                IN  /\ users' = st.u
                    /\ history' = st.h
                    /\ earned' = st.e
                    /\ outbox' = {}
                    /\ last' = Resp("init_exists", tg, id, TRUE, "", users[id].bal, 0)
                    /\ UNCHANGED <<pending, referrals, cart, purchases, forms, progress,
                                   news, sessions, convs>>
           ELSE LET U == {p \in pending : p.referred = tg /\ ~p.processed}
                IN  /\ NextToRegister(tg)
                    /\ \E pk \in (IF U = {} THEN {NoPending} ELSE U) :
                           CreateUserAt(tg, referrer_uid, pk, fault)

\* POST /api/init with every statement succeeding.
ApiInit(tg, referrer_uid) == ApiInitAt(tg, referrer_uid, "ok")

-----------------------------------------------------------------------------
(* handle_bot_start_command (routes_bot.py) *)

\* (variant: the link's own-id test never fires)
IsOwnLinkNever(tg, ref) == FALSE

\* `referrer_id != user_id`: the deep link carries the sender's own telegram id.
IsOwnLink(tg, ref) == ref = tg

\* /start ref_<referrer telegram id> sent to the bot by telegram id tg.
\* already_referred compares referrals.referred_id (a user id) with the
\* sender's telegram id.
BotStart(tg, ref) ==
    /\ fuel > 0
    /\ fuel' = fuel - 1
    /\ UNCHANGED limiter
    /\ LET already_pending == \E p \in pending : p.referred = tg /\ p.referrer = ref
           already_referred == \E r \in referrals : r.referred = tg
           rid == UserByTg(users, ref)
       IN  IF ~IsOwnLink(tg, ref) /\ ~already_pending /\ ~already_referred
           THEN /\ pending' = pending \cup {[referred |-> tg, referrer |-> ref, processed |-> FALSE]}
                /\ outbox' = (IF rid # NoUser THEN {[to |-> ref, kind |-> "new_referral"]} ELSE {})
                             \cup {[to |-> tg, kind |-> "welcome"]}
           ELSE /\ pending' = pending
                /\ outbox' = {[to |-> tg, kind |-> "welcome"]}
    /\ last' = Resp("bot_start", tg, NoUser, TRUE, "", ref, 0)
    /\ UNCHANGED <<users, referrals, history, earned, cart, purchases, forms, progress,
                   news, sessions, convs, req>>

-----------------------------------------------------------------------------
(* Shop: cart and checkout (routes_shop.py) *)

CartOf(c, id) == {i \in Items : <<id, i>> \in c}

RECURSIVE SumPrices(_)
\* total = sum(i['price_caps'] for i in cart_items)
SumPrices(S) ==
    IF S = {} THEN 0
    ELSE LET i == CHOOSE x \in S : TRUE IN Price(i) + SumPrices(S \ {i})

\* (variant: only the first cart item gets a purchase row)
PurchaseRowsFirstOnly(id, S) ==
    IF S = {} THEN <<>>
    ELSE LET i == CHOOSE x \in S : \A y \in S : x <= y
         IN  <<[user |-> id, item |-> i, price |-> Price(i)]>>

RECURSIVE PurchaseRows(_, _)
\* One shop_purchases row per cart item, price_paid = the item's price_caps.
PurchaseRows(id, S) ==
    IF S = {} THEN <<>>
    ELSE LET i == CHOOSE x \in S : \A y \in S : x <= y
         IN  <<[user |-> id, item |-> i, price |-> Price(i)]>> \o PurchaseRows(id, S \ {i})

\* (variant: the checkout never refuses)
CheckoutAllowedAlways(bal, total) == TRUE

\* (variant: the checkout only refuses an empty balance)
CheckoutAllowedPositive(bal, total) == bal > 0

\* The balance pre-check: the checkout is refused when the balance read by
\* get_user is below the total.
CheckoutAllowed(bal, total) == bal >= total

\* (variant: round() instead of int())
CommissionRounded(total, percent) == Max(1, (total * percent + 50) \div 100)

\* l1_bonus = max(1, int(total * 0.05)), l2_bonus = max(1, int(total * 0.02)).
Commission(total, percent) == Max(1, (total * percent) \div 100)

\* balance_after logged for the purchase: the balance read by get_user at the
\* start of the request minus the total.
PurchaseBalanceAfter(read_bal, total) == read_bal - total

\* The buyer's debit and its shop_purchase row.
PurchaseDebit(st, id, total, read_bal) ==
    LET us2 == DebitUser(st.u, id, total)
    IN  [u |-> us2,
         h |-> Append(st.h, Row(id, -total, "shop_purchase",
                                PurchaseBalanceAfter(read_bal, total),
                                us2[id].bal))]

\* (variant: the commission pass stops at level 1)
CommissionsL1Only(st, id, total) ==
    LET l1 == st.u[id].referrer
    IN  IF l1 = NoUser THEN st
        ELSE CreditLogged(st, l1, Commission(total, L1_PERCENT), "referral_purchase")

\* Referral commissions: 5% to the buyer's referrer, 2% to that referrer's
\* referrer, each updated, re-read and logged as referral_purchase.
Commissions(st, id, total) ==
    LET l1 == st.u[id].referrer
    IN  IF l1 = NoUser THEN st
        ELSE LET s1 == CreditLogged(st, l1, Commission(total, L1_PERCENT), "referral_purchase")
                 l2 == s1.u[l1].referrer
             IN  IF l2 = NoUser THEN s1
                 ELSE CreditLogged(s1, l2, Commission(total, L2_PERCENT), "referral_purchase")

\* Telegram messages of a checkout: the commission notice to the level-1
\* referrer, and after the commit one delivery per purchased item to the buyer.
CommissionNotices(us, id) ==
    IF us[id].referrer # NoUser
    THEN {[to |-> us[us[id].referrer].tg, kind |-> "referral_purchase"]}
    ELSE {}

\* (variant: the content is sent before the commit)
SentOnFailureWithContent(us, id, fault) ==
    {[to |-> us[id].tg, kind |-> "delivery"]}

\* What a checkout that fails before its commit has already sent: the
\* level-1 referrer's notice, when the failure comes after it.
SentOnFailure(us, id, fault) ==
    IF fault = "commission_error" THEN CommissionNotices(us, id) ELSE {}

\* The content messages of a committed checkout; a failed delivery is logged
\* and skipped.
Deliveries(tg, fault) ==
    IF fault = "delivery_error" THEN {} ELSE {[to |-> tg, kind |-> "delivery"]}

\* The checkout transaction and what follows it, for user id whose users row
\* was read (get_user) with balance read_bal.  fault: "ok"; a statement of
\* the debit, purchase or cart block raises ("write_error"); a statement of
\* the commission block fails after the level-1 notice ("commission_error");
\* sending the content fails ("delivery_error").  items: the cart rows the
\* request read.
CheckoutBodyWith(id, read_bal, items, fault) ==
    LET total == SumPrices(items)
    IN  IF items = {}
        THEN /\ last' = Resp("checkout", users[id].tg, id, FALSE, "empty", 0, 0)
             /\ outbox' = {}
             /\ UNCHANGED dbvars
        ELSE IF ~CheckoutAllowed(read_bal, total)
        THEN /\ last' = Resp("checkout", users[id].tg, id, FALSE, "insufficient", total, read_bal)
             /\ outbox' = {}
             /\ UNCHANGED dbvars
        ELSE LET st1 == PurchaseDebit([u |-> users, h |-> history], id, total, read_bal)
                 pu2 == purchases \o PurchaseRows(id, items)
                 cart2 == {c \in cart : c[1] # id}
                 st2 == Commissions(st1, id, total)
                 \* after the commit: deliveries, then check_achievements(user['id'])
                 st3 == CheckAchievements([u |-> st2.u, h |-> st2.h, e |-> earned], id,
                                          RO(referrals, progress, pu2, forms, sessions))
             IN  IF fault \in {"write_error", "commission_error"}
                 THEN \* except Exception: 500, no commit was made
                      /\ users' = RolledBack(users, st2.u)
                      /\ history' = RolledBack(history, st2.h)
                      /\ purchases' = RolledBack(purchases, pu2)
                      /\ cart' = RolledBack(cart, cart2)
                      /\ outbox' = SentOnFailure(users, id, fault)
                      /\ last' = Resp("checkout", users[id].tg, id, FALSE, "internal", 0, 0)
                      /\ UNCHANGED <<pending, referrals, earned, forms, progress, news,
                                     sessions, convs>>
                 ELSE /\ users' = st3.u
                      /\ history' = st3.h
                      /\ earned' = st3.e
                      /\ purchases' = pu2
                      /\ cart' = cart2
                      /\ outbox' = CommissionNotices(users, id) \cup Deliveries(users[id].tg, fault)
                      /\ last' = Resp("checkout", users[id].tg, id, TRUE, "", total, read_bal - total)
                      /\ UNCHANGED <<pending, referrals, forms, progress, news, sessions, convs>>

\* The checkout reading the cart as it is now.
CheckoutBodyAt(id, read_bal, fault) == CheckoutBodyWith(id, read_bal, CartOf(cart, id), fault)

\* The checkout with every statement and delivery succeeding.
CheckoutBody(id, read_bal) == CheckoutBodyAt(id, read_bal, "ok")

\* POST /api/shop/checkout handled without any other request in between.
CheckoutAt(id, fault) ==
    /\ fuel > 0
    /\ fuel' = fuel - 1
    /\ UNCHANGED limiter
    /\ id \in Ids(users)
    /\ UNCHANGED req
    /\ CheckoutBodyAt(id, users[id].bal, fault)

\* POST /api/shop/checkout with every statement and delivery succeeding.
Checkout(id) == CheckoutAt(id, "ok")

\* POST /api/shop/cart/add: INSERT ... ON CONFLICT (user_id, item_id) DO NOTHING.
CartAdd(id, item) ==
    /\ fuel > 0
    /\ fuel' = fuel - 1
    /\ UNCHANGED limiter
    /\ id \in Ids(users)
    /\ cart' = cart \cup {<<id, item>>}
    /\ outbox' = {}
    /\ last' = Resp("cart_add", users[id].tg, id, TRUE, "", item, 0)
    /\ UNCHANGED <<users, pending, referrals, history, earned, purchases, forms, progress,
                   news, sessions, convs, req>>

\* POST /api/shop/cart/remove: DELETE FROM user_cart WHERE user_id AND item_id.
CartRemove(id, item) ==
    /\ fuel > 0
    /\ fuel' = fuel - 1
    /\ UNCHANGED limiter
    /\ id \in Ids(users)
    /\ cart' = cart \ {<<id, item>>}
    /\ outbox' = {}
    /\ last' = Resp("cart_remove", users[id].tg, id, TRUE, "", item, 0)
    /\ UNCHANGED <<users, pending, referrals, history, earned, purchases, forms, progress,
                   news, sessions, convs, req>>

-----------------------------------------------------------------------------
(* AI chat: get_ai_response (ai.py) *)

\* (variant: the balance is not checked before the provider call)
ChatAllowedAlways(bal, level, ai_cost) == TRUE

\* Check caps balance and VIP status: a non-VIP user needs the message cost.
ChatAllowed(bal, level, ai_cost) == level = "vip" \/ bal >= ai_cost

\* (variant: every user pays the message cost)
CapsCostForAll(level, ai_cost) == ai_cost

\* caps_cost = 0 if is_vip else ai_cost
CapsCost(level, ai_cost) == IF level = "vip" THEN 0 ELSE ai_cost

\* (variant: the debit is not written to the ledger)
ChatDebitUnlogged(st, id, caps_cost) ==
    [u |-> [DebitUser(st.u, id, caps_cost) EXCEPT ![id].ai_req = @ + 1], h |-> st.h]

\* Save conversation: the users row is debited and ai_requests_count
\* incremented; the debit is re-read and logged only when caps_cost > 0.
ChatDebit(st, id, caps_cost) ==
    LET us2 == [DebitUser(st.u, id, caps_cost) EXCEPT ![id].ai_req = @ + 1]
    IN  [u |-> us2,
         h |-> IF caps_cost > 0
               THEN Append(st.h, Row(id, -caps_cost, "ai_cost", us2[id].bal, us2[id].bal))
               ELSE st.h]

\* (variant: the injection test comes after the block test)
DeflectedUnlessBlocked(inj, blocked) == inj /\ ~blocked

\* The prompt injection check is the first thing the handler does, before the
\* session is read.
Deflected(inj, blocked) == inj

\* (variant: a block is never enforced)
StillBlockedNever(blocked, expired) == FALSE

\* Anti-spam, check block: is_blocked and block_expires_at still ahead.
StillBlocked(blocked, expired) == blocked /\ ~expired

\* (variant: an exception is answered with the canned fallback)
ChatFailureAsFallback(tg, id) == Resp("chat", tg, id, TRUE, "fallback", 0, 0)

\* except Exception: the generic temporary-problem result.
ChatFailure(tg, id) == Resp("chat", tg, id, FALSE, "temporary", 0, 0)

\* Save conversation, the side-channel writes, the commit and the achievement
\* check, for an answer of the provider; rapid_count as the rapid-response
\* check left it.
SaveConversation(id, tg, rapid_count, ai_cost, side) ==
    IF side = "write_error"
    THEN \* the exception leaves the handler before the commit
         /\ last' = ChatFailure(tg, id)
         /\ outbox' = {}
         /\ UNCHANGED dbvars
    ELSE IF side = "sql_error"
    THEN \* the failed statement aborts the transaction: the commit
         \* rolls everything back, the answer is returned all the same
         LET st == CheckAchievements([u |-> users, h |-> history, e |-> earned], id,
                                     RO(referrals, progress, purchases, forms, sessions))
         IN  /\ users' = st.u
             /\ history' = st.h
             /\ earned' = st.e
             /\ last' = Resp("chat", tg, id, TRUE, "",
                             CapsCost(users[id].level, ai_cost), 0)
             /\ outbox' = {}
             /\ UNCHANGED <<pending, referrals, cart, purchases, forms, progress,
                            news, sessions, convs>>
    ELSE LET caps_cost == CapsCost(users[id].level, ai_cost)
             st1 == ChatDebit([u |-> users, h |-> history], id, caps_cost)
             convs2 == Append(convs, [user |-> id, kind |-> "answer", caps |-> caps_cost])
             open == IF sessions[id].blocked THEN Unblocked(sessions[id]) ELSE sessions[id]
             sess2 == [sessions EXCEPT ![id] = [open EXCEPT !.count = rapid_count + 1]]
             st1e == [u |-> st1.u, h |-> st1.h, e |-> earned]
             st2 == IF side = "ach_error" THEN st1e
                    ELSE CheckAchievements(st1e, id,
                                           RO(referrals, progress, purchases, forms, sess2))
         IN  /\ users' = st2.u
             /\ history' = st2.h
             /\ earned' = st2.e
             /\ convs' = convs2
             /\ sessions' = sess2
             /\ last' = Resp("chat", tg, id, TRUE, "", caps_cost, 0)
             /\ outbox' = {}
             /\ UNCHANGED <<pending, referrals, cart, purchases, forms, progress, news>>

\* get_ai_response for user id.  inj: check_prompt_injection(message);
\* expired: the block's block_expires_at has passed; rapid: the previous
\* response of the session is less than RAPID_THRESHOLD_SECONDS old;
\* llm: the provider answered 200 ("ok"), answered something else ("error"),
\* or the call raised, as on a timeout ("timeout"); ai_cost: the value of the
\* admin setting ai_message_cost read by this request; side: "ok", or what
\* goes wrong: the database cannot be reached ("db_down"), a statement of the
\* save-conversation block raises ("write_error"), a side-channel INSERT
\* fails in the database ("sql_error"), or check_achievements raises
\* ("ach_error").
ChatAt(id, inj, expired, rapid, llm, ai_cost, side) ==
    /\ fuel > 0
    /\ fuel' = fuel - 1
    /\ UNCHANGED limiter
    /\ id \in Ids(users)
    /\ UNCHANGED req
    /\ LET tg == users[id].tg
           sess == sessions[id]
           has_resp == \E k \in 1..Len(convs) : convs[k].user = id /\ convs[k].kind = "answer"
           \* rapid_count after the rapid-response check
           rapid_count == IF has_resp
                          THEN (IF rapid THEN sess.count + 1 ELSE 0)
                          ELSE sess.count
       IN  IF side = "db_down"
           THEN /\ last' = ChatFailure(tg, id)
                /\ outbox' = {}
                /\ UNCHANGED dbvars
           ELSE IF Deflected(inj, sess.blocked)
           THEN /\ convs' = Append(convs, [user |-> id, kind |-> "injection", caps |-> 0])
                /\ last' = Resp("chat", tg, id, TRUE, "deflected", 0, 0)
                /\ outbox' = {}
                /\ UNCHANGED <<users, pending, referrals, history, earned, cart, purchases,
                               forms, progress, news, sessions>>
           ELSE IF StillBlocked(sess.blocked, expired)
           THEN /\ last' = Resp("chat", tg, id, FALSE, "wait", 0, 0)
                /\ outbox' = {}
                /\ UNCHANGED dbvars
           ELSE IF ~ChatAllowed(users[id].bal, users[id].level, ai_cost)
           THEN /\ last' = Resp("chat", tg, id, FALSE, "insufficient", ai_cost, 0)
                /\ outbox' = {}
                /\ UNCHANGED dbvars
           ELSE IF rapid_count >= MAX_RAPID_MESSAGES
           THEN /\ sessions' = [sessions EXCEPT ![id] = [count |-> 0, blocked |-> TRUE,
                                                    expires |-> TRUE]]
                /\ last' = Resp("chat", tg, id, FALSE, "wait", 0, 0)
                /\ outbox' = {[to |-> tg, kind |-> "spam_block"]}
                /\ UNCHANGED <<users, pending, referrals, history, earned, cart, purchases,
                               forms, progress, news, convs>>
           ELSE IF llm = "timeout"
           THEN /\ last' = ChatFailure(tg, id)
                /\ outbox' = {}
                /\ UNCHANGED dbvars
           ELSE IF llm # "ok"
           THEN /\ last' = Resp("chat", tg, id, TRUE, "fallback", 0, 0)
                /\ outbox' = {}
                /\ UNCHANGED dbvars
           ELSE SaveConversation(id, tg, rapid_count, ai_cost, side)

\* POST /api/ai/chat with the default message cost and nothing failing.
Chat(id, inj, expired, rapid, llm) ==
    ChatAt(id, inj, expired, rapid, llm, CAPS_PER_AI_REQUEST, "ok")

-----------------------------------------------------------------------------
(* News subscription (routes_user.py, routes_admin.py) *)

NewsAllowed(bal, level, daily_cost) == level = "vip" \/ bal >= daily_cost

\* POST /api/news/subscribe: the first day is debited (free for VIP) and the
\* subscription row upserted active.
NewsSubscribe(id) ==
    /\ fuel > 0
    /\ fuel' = fuel - 1
    /\ UNCHANGED limiter
    /\ id \in Ids(users)
    /\ UNCHANGED req
    /\ outbox' = {}
    /\ IF ~NewsAllowed(users[id].bal, users[id].level, NEWS_DAILY_COST)
       THEN /\ last' = Resp("news_subscribe", users[id].tg, id, FALSE, "insufficient",
                            NEWS_DAILY_COST, 0)
            /\ UNCHANGED dbvars
       ELSE LET st == IF users[id].level # "vip"
                      THEN DebitLogged([u |-> users, h |-> history], id, NEWS_DAILY_COST,
                                       "news_subscription")
                      ELSE [u |-> users, h |-> history]
            IN  /\ users' = st.u
                /\ history' = st.h
                /\ news' = {n \in news : n.user # id} \cup {[user |-> id, active |-> TRUE]}
                /\ last' = Resp("news_subscribe", users[id].tg, id, TRUE, "", st.u[id].bal, 0)
                /\ UNCHANGED <<pending, referrals, earned, cart, purchases, forms, progress,
                               sessions, convs>>

\* A subscriber is charged when the balance read with the subscription list
\* covers the daily cost.
ChargeAllowed(bal, daily_cost) == bal >= daily_cost

RECURSIVE ChargeLoop(_, _)
\* for sub in subs: charge and log, or leave the balance alone.  subs is a set
\* of user ids; each user has at most one subscription row.
ChargeLoop(st, subs) ==
    IF subs = {} THEN st
    ELSE LET id == CHOOSE x \in subs : \A y \in subs : x <= y
             st2 == IF ChargeAllowed(st.u[id].bal, NEWS_DAILY_COST)
                    THEN DebitLogged(st, id, NEWS_DAILY_COST, "news_daily_charge")
                    ELSE st
         IN  ChargeLoop(st2, subs \ {id})

\* POST /api/admin/news/charge-daily: every active subscriber is charged the
\* daily cost or, without the balance for it, deactivated and told so.
NewsChargeDaily ==
    /\ fuel > 0
    /\ fuel' = fuel - 1
    /\ UNCHANGED limiter
    /\ UNCHANGED req
    /\ LET subs == {n.user : n \in {m \in news : m.active}}
           poor == {id \in subs : ~ChargeAllowed(users[id].bal, NEWS_DAILY_COST)}
           st == ChargeLoop([u |-> users, h |-> history], subs)
       IN  /\ users' = st.u
           /\ history' = st.h
           /\ news' = {IF n.user \in poor THEN [n EXCEPT !.active = FALSE] ELSE n : n \in news}
           /\ outbox' = {[to |-> users[id].tg, kind |-> "news_off"] : id \in poor}
           /\ last' = Resp("news_charge", 0, NoUser, TRUE, "",
                           Cardinality(subs \ poor), Cardinality(poor))
    /\ UNCHANGED <<pending, referrals, earned, cart, purchases, forms, progress, sessions, convs>>

-----------------------------------------------------------------------------
(* University, forms, admin (routes_university.py, routes_forms.py, routes_admin.py) *)

\* POST /api/university/complete.  passed: not (total > 0 and score < total).
LessonBody(id, lesson, passed, existing) ==
    /\ outbox' = {}
    /\ IF existing
       THEN /\ last' = Resp("lesson", users[id].tg, id, TRUE, "already_completed", 0, 0)
            /\ UNCHANGED dbvars
       ELSE IF ~passed
       THEN /\ last' = Resp("lesson", users[id].tg, id, FALSE, "wrong_answers", 0, 0)
            /\ UNCHANGED dbvars
       ELSE LET pg2 == progress \cup {<<id, lesson>>}
                st1 == IF LESSON_REWARD > 0
                       THEN CreditLogged([u |-> users, h |-> history], id, LESSON_REWARD,
                                         "lesson_reward")
                       ELSE [u |-> users, h |-> history]
                st2 == CheckAchievements([u |-> st1.u, h |-> st1.h, e |-> earned], id,
                                         RO(referrals, pg2, purchases, forms, sessions))
            IN  /\ users' = st2.u
                /\ history' = st2.h
                /\ earned' = st2.e
                /\ progress' = pg2
                /\ last' = Resp("lesson", users[id].tg, id, TRUE, "", LESSON_REWARD, 0)
                /\ UNCHANGED <<pending, referrals, cart, purchases, forms, news, sessions, convs>>

\* POST /api/university/complete with nothing committed between its
\* statements.
LessonComplete(id, lesson, passed) ==
    /\ fuel > 0
    /\ fuel' = fuel - 1
    /\ UNCHANGED limiter
    /\ id \in Ids(users)
    /\ UNCHANGED req
    /\ LessonBody(id, lesson, passed, <<id, lesson>> \in progress)

\* POST /api/application/submit (kind "app", no achievement check) and
\* POST /api/sos/submit (kind "sos", followed by check_achievements).
FormSubmit(id, kind) ==
    /\ fuel > 0
    /\ fuel' = fuel - 1
    /\ UNCHANGED limiter
    /\ id \in Ids(users)
    /\ UNCHANGED req
    /\ LET fm2 == forms \cup {<<id, kind>>}
           st0 == [u |-> users, h |-> history, e |-> earned]
           st == IF kind = "sos"
                 THEN CheckAchievements(st0, id, RO(referrals, progress, purchases, fm2, sessions))
                 ELSE st0
       IN  /\ forms' = fm2
           /\ users' = st.u
           /\ history' = st.h
           /\ earned' = st.e
    /\ outbox' = {[to |-> 0, kind |-> kind]}
    /\ last' = Resp(kind, users[id].tg, id, TRUE, "", 0, 0)
    /\ UNCHANGED <<pending, referrals, cart, purchases, progress, news, sessions, convs>>

\* POST /api/admin/user/<id>/level: set user_level, notify, check_achievements.
AdminChangeLevel(id, level) ==
    /\ fuel > 0
    /\ fuel' = fuel - 1
    /\ UNCHANGED limiter
    /\ id \in Ids(users)
    /\ UNCHANGED req
    /\ LET us2 == [users EXCEPT ![id].level = level]
           st == CheckAchievements([u |-> us2, h |-> history, e |-> earned], id,
                                   RO(referrals, progress, purchases, forms, sessions))
       IN  /\ users' = st.u
           /\ history' = st.h
           /\ earned' = st.e
    /\ outbox' = {[to |-> users[id].tg, kind |-> "level"]}
    /\ last' = Resp("level", users[id].tg, id, TRUE, "", 0, 0)
    /\ UNCHANGED <<pending, referrals, cart, purchases, forms, progress, news, sessions, convs>>

\* POST /api/admin/ai/unblock (routes_admin.py) for an existing user id.
AdminUnblock(id) ==
    /\ fuel > 0
    /\ fuel' = fuel - 1
    /\ UNCHANGED limiter
    /\ id \in Ids(users)
    /\ UNCHANGED req
    /\ sessions' = [sessions EXCEPT ![id] = Unblocked(@)]
    /\ outbox' = {}
    /\ last' = Resp("ai_unblock", users[id].tg, id, TRUE, "", 0, 0)
    /\ UNCHANGED <<users, pending, referrals, history, earned, cart, purchases, forms,
                   progress, news, convs>>

-----------------------------------------------------------------------------
(* Specification: requests handled one after the other *)

InitDb(f) ==
    /\ users = <<>>
    /\ pending = {}
    /\ referrals = {}
    /\ history = <<>>
    /\ earned = <<>>
    /\ cart = {}
    /\ purchases = <<>>
    /\ forms = {}
    /\ progress = {}
    /\ news = {}
    /\ sessions = <<>>
    /\ convs = <<>>
    /\ outbox = {}
    /\ last = Resp("none", 0, NoUser, TRUE, "", 0, 0)
    /\ fuel = f
    /\ req = {}
    /\ rate_limits = [k \in RateKeys |-> <<>>]
    /\ now = 0
    /\ calls = <<>>

Init == InitDb(MaxOps)

Next ==
    \/ \E tg \in TgIds, uid \in UidInputs : ApiInit(tg, uid)
    \/ \E tg \in TgIds, ref \in TgIds : BotStart(tg, ref)
    \/ \E id \in Ids(users), i \in Items : CartAdd(id, i)
    \/ \E id \in Ids(users), i \in Items : CartRemove(id, i)
    \/ \E id \in Ids(users) : Checkout(id)
    \/ \E id \in Ids(users), inj \in BOOLEAN, expired \in BOOLEAN, rapid \in BOOLEAN,
          llm \in {"ok", "error"} : Chat(id, inj, expired, rapid, llm)
    \/ \E id \in Ids(users) : NewsSubscribe(id)
    \/ NewsChargeDaily
    \/ \E id \in Ids(users), l \in Lessons, passed \in BOOLEAN : LessonComplete(id, l, passed)
    \/ \E id \in Ids(users), kind \in {"app", "sos"} : FormSubmit(id, kind)
    \/ \E id \in Ids(users), level \in {"basic", "vip"} : AdminChangeLevel(id, level)

Spec == Init /\ [][Next]_vars

-----------------------------------------------------------------------------
(* Specification: the shop (registration, forms, cart, checkout) *)

InitShop == InitDb(MaxShopOps)

NextShop ==
    \/ \E tg \in TgIds, uid \in UidInputs : ApiInit(tg, uid)
    \/ \E id \in Ids(users), i \in Items : CartAdd(id, i)
    \/ \E id \in Ids(users), i \in Items : CartRemove(id, i)
    \/ \E id \in Ids(users) : Checkout(id)
    \/ \E id \in Ids(users) : FormSubmit(id, "app")

SpecShop == InitShop /\ [][NextShop]_vars

-----------------------------------------------------------------------------
(* Specification: the referral program (deep links, registration, forms) *)

InitReferral == InitDb(MaxRefOps)

NextReferral ==
    \/ \E tg \in TgIds, uid \in UidInputs : ApiInit(tg, uid)
    \/ \E tg \in TgIds, ref \in TgIds : BotStart(tg, ref)
    \/ \E id \in Ids(users), kind \in {"app", "sos"} : FormSubmit(id, kind)

SpecReferral == InitReferral /\ [][NextReferral]_vars

-----------------------------------------------------------------------------
(* Specification: registrations of one telegram id overlapping *)

MaxInitOps == 5             \* requests per behaviour of SpecInit

\* (variant: create_user without the existing-user test)
CreateUserCallUnchecked(tg, referrer_uid) ==
    LET U == {p \in pending : p.referred = tg /\ ~p.processed}
    IN  \E pk \in (IF U = {} THEN {NoPending} ELSE U) : CreateUser(tg, referrer_uid, pk)

\* create_user as api_init calls it: a telegram id that has a users row by now
\* is refused before anything is read or written, any other goes through.
CreateUserCall(tg, referrer_uid) ==
    LET existing == UserByTg(users, tg)
        U == {p \in pending : p.referred = tg /\ ~p.processed}
    IN  IF existing # NoUser
        THEN /\ last' = Resp("init", tg, existing, FALSE, "exists", referrer_uid, 0)
             /\ outbox' = {}
             /\ UNCHANGED dbvars
        ELSE \E pk \in (IF U = {} THEN {NoPending} ELSE U) : CreateUser(tg, referrer_uid, pk)

\* First part of POST /api/init for a new telegram id: get_user finds no row.
InitRead(tg, referrer_uid) ==
    /\ fuel > 0
    /\ fuel' = fuel - 1
    /\ UNCHANGED limiter
    /\ UserByTg(users, tg) = NoUser
    /\ NextToRegister(tg)
    /\ [op |-> "init", tg |-> tg, uid |-> referrer_uid] \notin req
    /\ Cardinality({r \in req : r.tg = tg}) < 2
    /\ req' = req \cup {[op |-> "init", tg |-> tg, uid |-> referrer_uid]}
    /\ UNCHANGED <<users, pending, referrals, history, earned, cart, purchases, forms,
                   progress, news, sessions, convs, outbox, last>>

\* The rest of that request: the create_user call.
InitCommit(r) ==
    /\ fuel > 0
    /\ fuel' = fuel - 1
    /\ UNCHANGED limiter
    /\ r \in req
    /\ r.op = "init"
    /\ req' = req \ {r}
    /\ CreateUserCall(r.tg, r.uid)

InitInit == InitDb(MaxInitOps)

NextInit ==
    \/ \E tg \in TgIds, uid \in UidInputs : InitRead(tg, uid)
    \/ \E r \in req : InitCommit(r)
    \/ \E tg \in TgIds, ref \in TgIds : BotStart(tg, ref)

SpecInit == InitInit /\ [][NextInit]_vars

-----------------------------------------------------------------------------
(* Specification: achievement evaluations of one user overlapping *)

MaxAchOps == 6              \* requests per behaviour of SpecAch
MaxEvaluations == 2         \* evaluations of one user in flight at a time

\* check_achievements up to the end of its reads: the rules that hold and the
\* earned codes are taken from the tables as committed now.
AchRead(id) ==
    /\ fuel > 0
    /\ fuel' = fuel - 1
    /\ UNCHANGED limiter
    /\ id \in Ids(users)
    /\ Cardinality({r \in req : r.user = id}) < MaxEvaluations
    /\ LET n == CHOOSE k \in 1..MaxEvaluations : \A r \in req : r.user = id => r.n # k
       IN  req' = req \cup
                  {[op |-> "achievements", user |-> id, n |-> n,
                    checks |-> Checks(users, id, RO(referrals, progress, purchases, forms, sessions)),
                    earned_codes |-> EarnedCodes(earned, id)]}
    /\ UNCHANGED <<users, pending, referrals, history, earned, cart, purchases, forms,
                   progress, news, sessions, convs, outbox, last>>

\* The award loop of that evaluation and its commit.
AchCommit(r) ==
    /\ fuel > 0
    /\ fuel' = fuel - 1
    /\ UNCHANGED limiter
    /\ r \in req
    /\ r.op = "achievements"
    /\ req' = req \ {r}
    /\ LET st == AwardLoop([u |-> users, h |-> history, e |-> earned], r.user,
                           r.checks, r.earned_codes)
       IN  /\ users' = st.u
           /\ history' = st.h
           /\ earned' = st.e
    /\ outbox' = {}
    /\ last' = Resp("achievements", users[r.user].tg, r.user, TRUE, "", 0, 0)
    /\ UNCHANGED <<pending, referrals, cart, purchases, forms, progress, news, sessions, convs>>

InitAch == InitDb(MaxAchOps)

NextAch ==
    \/ \E tg \in TgIds : ApiInit(tg, NoUid)
    \/ \E id \in Ids(users), kind \in {"app", "sos"} : FormSubmit(id, kind)
    \/ \E id \in Ids(users) : AchRead(id)
    \/ \E r \in req : AchCommit(r)

SpecAch == InitAch /\ [][NextAch]_vars

-----------------------------------------------------------------------------
(* Specification: one user's chat session *)

MaxChatOps == 7             \* requests per behaviour of SpecChat

InitChat == InitDb(MaxChatOps)

\* A block lasts SPAM_BLOCK_DURATION_MINUTES, far longer than
\* RAPID_THRESHOLD_SECONDS, and no response is written while it lasts: a
\* message after the expiry is never a rapid one.
NextChat ==
    \/ ApiInit(101, NoUid)
    \/ \E id \in Ids(users), inj \in BOOLEAN, expired \in BOOLEAN, rapid \in BOOLEAN,
          llm \in {"ok", "error"} :
          /\ (sessions[id].blocked /\ expired) => ~rapid
          /\ ~sessions[id].blocked => ~expired
          /\ Chat(id, inj, expired, rapid, llm)
    \/ \E id \in Ids(users), level \in {"basic", "vip"} : AdminChangeLevel(id, level)

SpecChat == InitChat /\ [][NextChat]_vars

-----------------------------------------------------------------------------
(* Specification: one user's chat session and the admin's unblock *)

MaxSessionOps == 7          \* requests per behaviour of SpecSession

InitSession == InitDb(MaxSessionOps)

NextSession ==
    \/ ApiInit(101, NoUid)
    \/ \E id \in Ids(users), inj \in BOOLEAN, expired \in BOOLEAN, rapid \in BOOLEAN,
          llm \in {"ok", "error"} :
          /\ (sessions[id].blocked /\ expired) => ~rapid
          /\ ~sessions[id].blocked => ~expired
          /\ Chat(id, inj, expired, rapid, llm)
    \/ \E id \in Ids(users) : AdminUnblock(id)

SpecSession == InitSession /\ [][NextSession]_vars

-----------------------------------------------------------------------------
(* Specification: chat with a changing message cost and failing steps *)

MaxFaultOps == 5            \* requests per behaviour of SpecFault

\* Values of the admin setting ai_message_cost (admin_update_settings can
\* change it between any two requests).
AiCosts == {CAPS_PER_AI_REQUEST, 60}

LlmOutcomes == {"ok", "error", "timeout"}

SideOutcomes == {"ok", "db_down", "write_error", "sql_error", "ach_error"}

InitFault == InitDb(MaxFaultOps)

\* A chat request with inputs that can occur together: a block lasts far
\* longer than RAPID_THRESHOLD_SECONDS, so a message after its expiry is never
\* a rapid one, and only a block can have expired.  An input the handler
\* cannot get to look at is left at its default: nothing is read once the
\* connection failed or the message was deflected, and nothing is saved
\* unless the provider answered.
ChatStepAt(id, inj, expired, rapid, llm, ai_cost, side) ==
    /\ (sessions[id].blocked /\ expired) => ~rapid
    /\ ~sessions[id].blocked => ~expired
    /\ (side = "db_down" \/ inj)
          => ~expired /\ ~rapid /\ llm = "ok" /\ ai_cost = CAPS_PER_AI_REQUEST
    /\ inj => side \in {"ok", "db_down"}
    /\ llm # "ok" => side \in {"ok", "db_down"}
    /\ ChatAt(id, inj, expired, rapid, llm, ai_cost, side)

NextFault ==
    \/ ApiInit(101, NoUid)
    \/ \E id \in Ids(users), inj \in BOOLEAN, expired \in BOOLEAN, rapid \in BOOLEAN,
          llm \in LlmOutcomes, ai_cost \in AiCosts, side \in SideOutcomes :
          ChatStepAt(id, inj, expired, rapid, llm, ai_cost, side)
    \/ \E id \in Ids(users), level \in {"basic", "vip"} : AdminChangeLevel(id, level)
    \/ \E id \in Ids(users) : FormSubmit(id, "app")

SpecFault == InitFault /\ [][NextFault]_vars

-----------------------------------------------------------------------------
(* Specification: chat of a user whose level the admin changes *)

MaxVipOps == 7              \* requests per behaviour of SpecVip

InitVip == InitDb(MaxVipOps)

NextVip ==
    \/ ApiInit(101, NoUid)
    \/ \E id \in Ids(users), inj \in BOOLEAN, expired \in BOOLEAN, rapid \in BOOLEAN,
          llm \in {"ok", "error"}, ai_cost \in AiCosts :
          ChatStepAt(id, inj, expired, rapid, llm, ai_cost, "ok")
    \/ \E id \in Ids(users), level \in {"basic", "vip"} : AdminChangeLevel(id, level)
    \/ \E id \in Ids(users) : FormSubmit(id, "app")

SpecVip == InitVip /\ [][NextVip]_vars

-----------------------------------------------------------------------------
(* Specification: checkouts and chat messages of one user overlapping *)

MaxOverlapOps == 7          \* steps per behaviour of SpecOverlap
MaxInFlight == 2            \* requests of one user in flight at a time

\* A free slot for another request of user id.
FreeSlot(id) == CHOOSE k \in 1..MaxInFlight : \A r \in req : r.user = id => r.n # k

CanStart(id) ==
    /\ id \in Ids(users)
    /\ Cardinality({r \in req : r.user = id}) < MaxInFlight

\* The checkout handler up to its balance check, passed: the users row was
\* read by get_user, the cart rows by the handler's own SELECT.
CheckoutCheck(id) ==
    /\ fuel > 0
    /\ fuel' = fuel - 1
    /\ UNCHANGED limiter
    /\ CanStart(id)
    /\ CartOf(cart, id) # {}
    /\ CheckoutAllowed(users[id].bal, SumPrices(CartOf(cart, id)))
    /\ req' = req \cup {[op |-> "checkout", user |-> id, n |-> FreeSlot(id),
                          bal |-> users[id].bal, items |-> CartOf(cart, id)]}
    /\ UNCHANGED <<users, pending, referrals, history, earned, cart, purchases, forms,
                   progress, news, sessions, convs, outbox, last>>

\* The rest of that checkout: the debit is relative to the balance stored
\* now, the purchases are those of the cart rows read then.
CheckoutFinish(r) ==
    /\ fuel > 0
    /\ fuel' = fuel - 1
    /\ UNCHANGED limiter
    /\ r \in req
    /\ r.op = "checkout"
    /\ req' = req \ {r}
    /\ CheckoutBodyWith(r.user, r.bal, r.items, "ok")

\* get_ai_response up to its balance check, passed, for a message that is
\* not flagged and a session that is not blocked.
ChatCheck(id, ai_cost) ==
    /\ fuel > 0
    /\ fuel' = fuel - 1
    /\ UNCHANGED limiter
    /\ CanStart(id)
    /\ ~sessions[id].blocked
    /\ ChatAllowed(users[id].bal, users[id].level, ai_cost)
    /\ req' = req \cup {[op |-> "chat", user |-> id, n |-> FreeSlot(id), ai_cost |-> ai_cost]}
    /\ UNCHANGED <<users, pending, referrals, history, earned, cart, purchases, forms,
                   progress, news, sessions, convs, outbox, last>>

\* The rest of that message, not a rapid one, answered by the provider.
ChatFinish(r) ==
    /\ fuel > 0
    /\ fuel' = fuel - 1
    /\ UNCHANGED limiter
    /\ r \in req
    /\ r.op = "chat"
    /\ req' = req \ {r}
    /\ LET id == r.user
           has_resp == \E k \in 1..Len(convs) : convs[k].user = id /\ convs[k].kind = "answer"
           rapid_count == IF has_resp THEN 0 ELSE sessions[id].count
       IN  SaveConversation(id, users[id].tg, rapid_count, r.ai_cost, "ok")

InitOverlap == InitDb(MaxOverlapOps)

NextOverlap ==
    \/ \E tg \in {101, 102}, uid \in {NoUid, STARTING_UID} : ApiInit(tg, uid)
    \/ \E id \in Ids(users), i \in Items : CartAdd(id, i)
    \/ \E id \in Ids(users) : CheckoutCheck(id)
    \/ \E r \in req : CheckoutFinish(r)
    \/ \E id \in Ids(users), ai_cost \in AiCosts : ChatCheck(id, ai_cost)
    \/ \E r \in req : ChatFinish(r)

SpecOverlap == InitOverlap /\ [][NextOverlap]_vars

-----------------------------------------------------------------------------
(* Specification: lesson completions of one user overlapping *)

MaxLessonOps == 6           \* steps per behaviour of SpecLesson

\* api_university_complete up to its tests, passed: no completed
\* university_progress row was found and the answers are all right.
LessonRead(id, lesson) ==
    /\ fuel > 0
    /\ fuel' = fuel - 1
    /\ UNCHANGED limiter
    /\ CanStart(id)
    /\ <<id, lesson>> \notin progress
    /\ req' = req \cup {[op |-> "lesson", user |-> id, n |-> FreeSlot(id), lesson |-> lesson]}
    /\ UNCHANGED <<users, pending, referrals, history, earned, cart, purchases, forms,
                   progress, news, sessions, convs, outbox, last>>

\* The rest of that request: the upsert of the progress row, the reward
\* decided on the row read then, the commit and check_achievements.
LessonCommit(r) ==
    /\ fuel > 0
    /\ fuel' = fuel - 1
    /\ UNCHANGED limiter
    /\ r \in req
    /\ r.op = "lesson"
    /\ req' = req \ {r}
    /\ LessonBody(r.user, r.lesson, TRUE, FALSE)

InitLesson == InitDb(MaxLessonOps)

NextLesson ==
    \/ \E tg \in {101, 102}, uid \in {NoUid, STARTING_UID} : ApiInit(tg, uid)
    \/ \E id \in Ids(users), l \in Lessons, passed \in BOOLEAN : LessonComplete(id, l, passed)
    \/ \E id \in Ids(users), l \in Lessons : LessonRead(id, l)
    \/ \E r \in req : LessonCommit(r)

SpecLesson == InitLesson /\ [][NextLesson]_vars

-----------------------------------------------------------------------------
(* Specification: authenticated requests naming a telegram id in the body *)

MaxAuthOps == 4             \* requests per behaviour of SpecAuth

NoAuth == 0                 \* a request without init_data

\* The telegram ids whose init_data a request may carry, and NoAuth.
AuthTokens == {NoAuth, 101, 102}

\* The telegram_id values a request body may carry.
BodyIds == {101, 102}

\* require_telegram_auth without init_data: 401 before the handler runs.
Unauthorized(op) ==
    /\ fuel > 0
    /\ fuel' = fuel - 1
    /\ UNCHANGED limiter
    /\ UNCHANGED req
    /\ outbox' = {}
    /\ last' = Resp(op, 0, NoUser, FALSE, "auth", 0, 0)
    /\ UNCHANGED dbvars

\* get_user found no row for the telegram id the handler looked up: 404.
UserNotFound(op, tg) ==
    /\ fuel > 0
    /\ fuel' = fuel - 1
    /\ UNCHANGED limiter
    /\ UNCHANGED req
    /\ outbox' = {}
    /\ last' = Resp(op, tg, NoUser, FALSE, "not_found", 0, 0)
    /\ UNCHANGED dbvars

\* An authenticated handler: auth is the telegram id of the validated
\* init_data (request.telegram_user_id), lookup the telegram id the handler
\* passes to get_user.
Authenticated(op, auth, lookup, handler) ==
    IF auth = NoAuth THEN Unauthorized(op)
    ELSE IF UserByTg(users, lookup) = NoUser THEN UserNotFound(op, lookup)
    ELSE handler

\* POST /api/ai/chat (routes_ai.py): get_user(data['telegram_id']).  The
\* limit of 10 messages a minute is not reached within MaxAuthOps requests.
ApiAiChat(auth, telegram_id, inj, expired, rapid, llm) ==
    Authenticated("chat", auth, telegram_id,
                  Chat(UserByTg(users, telegram_id), inj, expired, rapid, llm))

\* POST /api/news/subscribe (routes_user.py): get_user(data['telegram_id']).
ApiNewsSubscribe(auth, telegram_id) ==
    Authenticated("news_subscribe", auth, telegram_id,
                  NewsSubscribe(UserByTg(users, telegram_id)))

\* POST /api/university/complete (routes_university.py):
\* get_user(data['telegram_id']).
ApiUniversityComplete(auth, telegram_id, lesson, passed) ==
    Authenticated("lesson", auth, telegram_id,
                  LessonComplete(UserByTg(users, telegram_id), lesson, passed))

\* POST /api/shop/cart/add (routes_shop.py): get_user(request.telegram_user_id).
ApiShopCartAdd(auth, telegram_id, item) ==
    Authenticated("cart_add", auth, auth, CartAdd(UserByTg(users, auth), item))

\* POST /api/shop/checkout (routes_shop.py): get_user(request.telegram_user_id).
ApiShopCheckout(auth, telegram_id) ==
    Authenticated("checkout", auth, auth, Checkout(UserByTg(users, auth)))

InitAuth == InitDb(MaxAuthOps)

NextAuth ==
    \/ \E tg \in BodyIds, uid \in {NoUid, STARTING_UID} : ApiInit(tg, uid)
    \/ \E auth \in AuthTokens, tg \in BodyIds, inj \in BOOLEAN :
          ApiAiChat(auth, tg, inj, FALSE, FALSE, "ok")
    \/ \E auth \in AuthTokens, tg \in BodyIds : ApiNewsSubscribe(auth, tg)
    \/ \E auth \in AuthTokens, tg \in BodyIds, l \in Lessons, passed \in BOOLEAN :
          ApiUniversityComplete(auth, tg, l, passed)
    \/ \E auth \in AuthTokens, tg \in BodyIds, i \in Items : ApiShopCartAdd(auth, tg, i)
    \/ \E auth \in AuthTokens, tg \in BodyIds : ApiShopCheckout(auth, tg)

SpecAuth == InitAuth /\ [][NextAuth]_vars

-----------------------------------------------------------------------------
(* Specification: two users registering, chatting and buying *)

MaxScenarioOps == 5         \* requests per behaviour of SpecScenario

InitScenario == InitDb(MaxScenarioOps)

NextScenario ==
    \/ \E tg \in {101, 102}, uid \in {NoUid, STARTING_UID} : ApiInit(tg, uid)
    \/ \E id \in Ids(users), inj \in BOOLEAN, llm \in {"ok", "error"} :
          Chat(id, inj, FALSE, FALSE, llm)
    \/ \E id \in Ids(users), i \in Items : CartAdd(id, i)
    \/ \E id \in Ids(users) : Checkout(id)

SpecScenario == InitScenario /\ [][NextScenario]_vars

-----------------------------------------------------------------------------
(* Specification: registrations and checkouts with failing steps *)

MaxAbortOps == 5            \* requests per behaviour of SpecAbort

CreateFaults == {"ok", "write_error", "late_error"}

CheckoutFaults == {"ok", "write_error", "commission_error", "delivery_error"}

InitAbort == InitDb(MaxAbortOps)

NextAbort ==
    \/ \E tg \in TgIds, uid \in UidInputs, fault \in CreateFaults : ApiInitAt(tg, uid, fault)
    \/ \E tg \in TgIds, ref \in TgIds : BotStart(tg, ref)
    \/ \E id \in Ids(users), i \in Items : CartAdd(id, i)
    \/ \E id \in Ids(users), fault \in CheckoutFaults : CheckoutAt(id, fault)

SpecAbort == InitAbort /\ [][NextAbort]_vars

-----------------------------------------------------------------------------
(* Specification: a checkout overlapping other requests of the same user *)

\* The checkout handler up to get_user: the users row is read on a connection
\* of its own and the request goes on with that copy.
CheckoutRead(id) ==
    /\ fuel > 0
    /\ fuel' = fuel - 1
    /\ UNCHANGED limiter
    /\ id \in Ids(users)
    /\ \A r \in req : r.op = "checkout" => r.user # id
    /\ req' = req \cup {[op |-> "checkout", user |-> id, bal |-> users[id].bal]}
    /\ UNCHANGED <<users, pending, referrals, history, earned, cart, purchases, forms,
                   progress, news, sessions, convs, outbox, last>>

\* The rest of the checkout handler: its transaction, deliveries and
\* achievement check, with the balance read earlier.
CheckoutCommit(r) ==
    /\ fuel > 0
    /\ fuel' = fuel - 1
    /\ UNCHANGED limiter
    /\ r \in req
    /\ r.op = "checkout"
    /\ req' = req \ {r}
    /\ CheckoutBody(r.user, r.bal)

InitRace == InitDb(MaxRaceOps)

NextRace ==
    \/ \E tg \in TgIds : ApiInit(tg, NoUid)
    \/ \E id \in Ids(users), i \in Items : CartAdd(id, i)
    \/ \E id \in Ids(users) : Chat(id, FALSE, FALSE, FALSE, "ok")
    \/ \E id \in Ids(users) : CheckoutRead(id)
    \/ \E r \in req : CheckoutCommit(r)

SpecRace == InitRace /\ [][NextRace]_vars

-----------------------------------------------------------------------------
(* Specification: registrations of different telegram ids overlapping *)

MaxUidOps == 6              \* steps per behaviour of SpecUid

\* (variant: system_uid without its UNIQUE constraint)
UidTakenNever(us, n) == FALSE

\* system_uid TEXT UNIQUE: the INSERT of a system_uid that a committed row
\* holds raises.
UidTaken(us, n) == \E i \in Ids(us) : us[i].uid = n

\* create_user up to "Generate next UID": the telegram id has no row, the
\* largest system_uid is read, and past MAX_UID the call ends here.
UidRead(tg, referrer_uid) ==
    /\ fuel > 0
    /\ fuel' = fuel - 1
    /\ UNCHANGED limiter
    /\ UserByTg(users, tg) = NoUser
    /\ \A r \in req : r.tg # tg
    /\ LET next_uid_num == NextUid(users)
       IN  IF next_uid_num > MAX_UID
           THEN /\ req' = req
                /\ CreateUserWith(tg, referrer_uid, NoPending, "ok", next_uid_num)
           ELSE /\ req' = req \cup {[op |-> "uid", tg |-> tg, uid |-> referrer_uid,
                                     num |-> next_uid_num]}
                /\ UNCHANGED <<users, pending, referrals, history, earned, cart, purchases,
                               forms, progress, news, sessions, convs, outbox, last>>

\* The rest of create_user: the INSERT with the number read before, the
\* referral processing and the commit.
UidCommit(r) ==
    /\ fuel > 0
    /\ fuel' = fuel - 1
    /\ UNCHANGED limiter
    /\ r \in req
    /\ r.op = "uid"
    /\ req' = req \ {r}
    /\ LET U == {p \in pending : p.referred = r.tg /\ ~p.processed}
           fault == IF UidTaken(users, r.num) THEN "write_error" ELSE "ok"
       IN  \E pk \in (IF U = {} THEN {NoPending} ELSE U) :
               CreateUserWith(r.tg, r.uid, pk, fault, r.num)

\* The database after the registrations that used up the numbers below
\* MAX_UID - 1: the user holding MAX_UID - 1 (the users before it take no
\* part and are left out).
InitNearLimit ==
    /\ users = <<[tg |-> 101, uid |-> MAX_UID - 1, referrer |-> NoUser,
                  bal |-> BASE_START + Reward("first_beer"), earned |-> Reward("first_beer"),
                  spent |-> 0, level |-> "basic", ai_req |-> 0]>>
    /\ history = <<Row(1, BASE_START, "registration_bonus", BASE_START, BASE_START)>>
    /\ earned = <<<<1, "first_beer">>>>
    /\ sessions = <<NewSession>>
    /\ pending = {}
    /\ referrals = {}
    /\ cart = {}
    /\ purchases = <<>>
    /\ forms = {}
    /\ progress = {}
    /\ news = {}
    /\ convs = <<>>
    /\ outbox = {}
    /\ last = Resp("none", 0, NoUser, TRUE, "", 0, 0)
    /\ fuel = MaxUidOps
    /\ req = {}
    /\ rate_limits = [k \in RateKeys |-> <<>>]
    /\ now = 0
    /\ calls = <<>>

InitUid == InitDb(MaxUidOps) \/ InitNearLimit

NextOfUid ==
    \/ \E tg \in TgIds, uid \in {NoUid, STARTING_UID} : UidRead(tg, uid)
    \/ \E r \in req : UidCommit(r)

SpecUid == InitUid /\ [][NextOfUid]_vars

-----------------------------------------------------------------------------
(* Specification: the in-process rate limiter (auth.py) *)

MaxLimitOps == 8            \* calls and clock ticks per behaviour of SpecLimit
RateMax == 2                \* max_requests passed with the key "ai:101"
RateWindow == 3             \* window_seconds passed with the key "ai:101"

\* The max_requests and window_seconds each key is always called with (the
\* routes pass 10, 60 and 5, 60).
MaxRequests(key) == IF key = "ai:101" THEN RateMax ELSE RateMax - 1
WindowSeconds(key) == IF key = "ai:101" THEN RateWindow ELSE RateWindow - 1

\* (variant: a rejected call is recorded too)
CheckRateLimitRecordsAll(list, t, max_requests, window_seconds) ==
    LET kept == SelectSeq(list, LAMBDA x : t - x < window_seconds)
    IN  [ok |-> Len(kept) < max_requests, list |-> Append(kept, t)]

\* check_rate_limit on the key's list at time t: the timestamps younger than
\* the window are kept, a full list rejects, otherwise t is appended.
CheckRateLimit(list, t, max_requests, window_seconds) ==
    LET kept == SelectSeq(list, LAMBDA x : t - x < window_seconds)
    IN  IF Len(kept) >= max_requests
        THEN [ok |-> FALSE, list |-> kept]
        ELSE [ok |-> TRUE, list |-> Append(kept, t)]

\* One call check_rate_limit(key, MaxRequests(key), WindowSeconds(key)).
RateCall(key) ==
    /\ fuel > 0
    /\ fuel' = fuel - 1
    /\ LET r == CheckRateLimit(rate_limits[key], now, MaxRequests(key), WindowSeconds(key))
       IN  /\ rate_limits' = [rate_limits EXCEPT ![key] = r.list]
           /\ calls' = Append(calls, [key |-> key, t |-> now, ok |-> r.ok])
           /\ last' = Resp("rate", 0, NoUser, r.ok, IF r.ok THEN "" ELSE "rate_limited", 0, 0)
    /\ outbox' = {}
    /\ UNCHANGED <<users, pending, referrals, history, earned, cart, purchases, forms,
                   progress, news, sessions, convs, req, now>>

\* A second passes.
Tick ==
    /\ fuel > 0
    /\ fuel' = fuel - 1
    /\ now' = now + 1
    /\ UNCHANGED <<users, pending, referrals, history, earned, cart, purchases, forms,
                   progress, news, sessions, convs, outbox, last, req, rate_limits, calls>>

InitLimit == InitDb(MaxLimitOps)

NextLimit ==
    \/ \E key \in RateKeys : RateCall(key)
    \/ Tick

SpecLimit == InitLimit /\ [][NextLimit]_vars

-----------------------------------------------------------------------------
(* Properties *)

\* Sum of the amounts of the balance_history rows of user id.
HistSum(h, id) ==
    SumSeq([k \in 1..Len(h) |-> IF h[k].user = id THEN h[k].amount ELSE 0], Len(h))

\* The balance_history rows a step appends.
NewRows == SubSeq(history', Len(history) + 1, Len(history'))

\* caps_balance of id before the step (0 for a user the step creates: the
\* column default).
BalBefore(id) == IF id \in Ids(users) THEN users[id].bal ELSE 0

\* The step handles a request of endpoint op for user id.
Handled(op, id) == fuel' = fuel - 1 /\ last'.op = op /\ last'.user = id

\* C1: for every user the sum of the amounts of the user's balance_history
\* rows equals the current caps_balance minus the initial balance, the initial
\* balance being the balance before the registration bonus (0) or, counting
\* the registration bonus as initial, the starting balance.
C1_HistorySumIsBalance ==
    \A id \in Ids(users) :
        \/ HistSum(history, id) = users[id].bal
        \/ HistSum(history, id) = users[id].bal - StartingBalance(users[id].referrer)

\* C2: every request changes each user's caps_balance by exactly the sum of
\* the signed amounts of the balance_history rows it appends for that user
\* (one row per balance change, no row without a change).
C2_EveryChangeLogged ==
    [][\A id \in Ids(users') :
          users'[id].bal - BalBefore(id) = HistSum(NewRows, id)]_vars

\* C3: every balance_history row's balance_after equals the caps_balance the
\* database held right after that row's balance update, also when another
\* request of the same user commits between the read and the update.
C3_BalanceAfterIsLive ==
    \A k \in 1..Len(history) : history[k].after = history[k].live

\* C4: after any sequence of requests handled one after the other every
\* user's caps_balance is at least 0.
C4_BalanceNonNegative ==
    \A id \in Ids(users) : users[id].bal >= 0

\* C4 witness: a user has been debited down to less than the base starting
\* balance.
C4_Witness ==
    \E id \in Ids(users) : users[id].spent > 0 /\ users[id].bal < BASE_START

-----------------------------------------------------------------------------
(* Checkout properties (SpecShop) *)

NewPurchases == SubSeq(purchases', Len(purchases) + 1, Len(purchases'))

\* The new balance_history rows of user id with operation op.
NewRowsOf(id, op) ==
    {k \in 1..Len(NewRows) : NewRows[k].user = id /\ NewRows[k].op = op}

\* Sum of the amounts of the new rows of user id with operation op.
NewAmount(id, op) ==
    SumSeq([k \in 1..Len(NewRows) |->
               IF NewRows[k].user = id /\ NewRows[k].op = op THEN NewRows[k].amount ELSE 0],
           Len(NewRows))

\* The step inserts exactly one purchase row per item of items, paid at the
\* item's price.
OnePurchasePerItem(id, items) ==
    /\ Len(NewPurchases) = Cardinality(items)
    /\ \A i \in items :
          Cardinality({k \in 1..Len(NewPurchases) :
                          NewPurchases[k] = [user |-> id, item |-> i, price |-> Price(i)]}) = 1

\* What a checkout that goes through does besides the buyer's balance.
CheckoutEffects(id, items, T) ==
    /\ last'.ok
    /\ users'[id].spent = users[id].spent + T
    /\ CartOf(cart', id) = {}
    /\ OnePurchasePerItem(id, items)

\* C5 as claimed: a checkout of a non-empty cart of total T by a user with
\* balance B >= T leaves the user's caps_balance at exactly B - T, adds T to
\* total_spent_caps, empties the cart and inserts one purchase row per item.
C5_CheckoutDebitsExactlyTotal ==
    [][\A id \in Ids(users) :
          LET items == CartOf(cart, id)
              T == SumPrices(items)
          IN  (Handled("checkout", id) /\ items # {} /\ users[id].bal >= T)
              => /\ CheckoutEffects(id, items, T)
                 /\ users'[id].bal = users[id].bal - T]_vars

\* C5 amended: such a checkout debits exactly T in one shop_purchase row of
\* amount -T, adds T to total_spent_caps, empties the cart and inserts one
\* purchase row per item; the caps_balance it leaves is B - T plus the
\* achievement rewards that the check_achievements call ending the request
\* credits to the buyer, each logged as achievement_reward.
C5_CheckoutDebit ==
    [][\A id \in Ids(users) :
          LET items == CartOf(cart, id)
              T == SumPrices(items)
          IN  (Handled("checkout", id) /\ items # {} /\ users[id].bal >= T)
              => /\ CheckoutEffects(id, items, T)
                 /\ Cardinality(NewRowsOf(id, "shop_purchase")) = 1
                 /\ NewAmount(id, "shop_purchase") = -T
                 /\ users'[id].bal = users[id].bal - T + NewAmount(id, "achievement_reward")
                 /\ users'[id].earned = users[id].earned + NewAmount(id, "achievement_reward")]_vars

\* C5 witness: a cart of two items has just been checked out.
C5_Witness ==
    /\ last.op = "checkout" /\ last.ok
    /\ Cardinality({k \in 1..Len(purchases) : purchases[k].user = last.user}) >= 2
    /\ CartOf(cart, last.user) = {}

\* C6: a checkout with an empty cart, or with a total above the balance,
\* answers success=false (with total and balance in the error for the
\* shortfall) and changes no table.
C6_FailedCheckoutChangesNothing ==
    [][\A id \in Ids(users) :
          LET items == CartOf(cart, id)
              T == SumPrices(items)
          IN  (Handled("checkout", id) /\ (items = {} \/ users[id].bal < T))
              => /\ ~last'.ok
                 /\ UNCHANGED dbvars
                 /\ items = {} => last'.err = "empty"
                 /\ items # {} => (last'.err = "insufficient" /\ last'.a = T
                                   /\ last'.b = users[id].bal)]_vars

\* C6 witness: a checkout has just been refused for insufficient balance.
C6_Witness ==
    /\ last.op = "checkout" /\ ~last.ok /\ last.err = "insufficient"
    /\ CartOf(cart, last.user) # {}

\* The step is a checkout of user id that went through.
Bought(id) == Handled("checkout", id) /\ last'.ok

\* The level-1 and level-2 referrers of user id.
L1Of(id) == users[id].referrer
L2Of(id) == IF L1Of(id) = NoUser THEN NoUser ELSE users[L1Of(id)].referrer

\* The step credits user r with amount a as exactly one referral_purchase row
\* whose balance_after is r's new balance, and writes r no referral_bonus row.
CommissionPaid(r, a) ==
    /\ users'[r].bal = users[r].bal + a
    /\ Cardinality(NewRowsOf(r, "referral_purchase")) = 1
    /\ \A k \in NewRowsOf(r, "referral_purchase") :
          NewRows[k].amount = a /\ NewRows[k].after = users'[r].bal
    /\ NewRowsOf(r, "referral_bonus") = {}

\* C7 as claimed: a checkout of total T by a referred user credits the level-1
\* referrer max(1, round(0.05 T)) caps (3 for T = 50) as one referral_purchase
\* row.
C7_CommissionRounded ==
    [][\A id \in Ids(users) :
          (Bought(id) /\ L1Of(id) # NoUser)
          => CommissionPaid(L1Of(id),
                            Max(1, (SumPrices(CartOf(cart, id)) * L1_PERCENT + 50) \div 100))]_vars

\* C7 amended: the level-1 referrer is credited max(1, floor(0.05 T)) caps
\* (2 for T = 50), as one referral_purchase row, a row kind other than the
\* referral_bonus written at signup.
C7_CommissionFloor ==
    [][\A id \in Ids(users) :
          (Bought(id) /\ L1Of(id) # NoUser)
          => /\ CommissionPaid(L1Of(id),
                               Max(1, (SumPrices(CartOf(cart, id)) * L1_PERCENT) \div 100))
             /\ \E k \in 1..Len(history) :
                   history[k].user = L1Of(id) /\ history[k].op = "referral_bonus"]_vars

\* C7 witness: a referred user has just bought for 50 caps and the referrer
\* has a referral_purchase row of 2 caps.
C7_Witness ==
    /\ last.op = "checkout" /\ last.ok /\ last.a = 50
    /\ users[last.user].referrer # NoUser
    /\ \E k \in 1..Len(history) :
          /\ history[k].user = users[last.user].referrer
          /\ history[k].op = "referral_purchase"
          /\ history[k].amount = 2

\* Telegram notice of a commission to user r.
Notice(r) == [to |-> users[r].tg, kind |-> "referral_purchase"]

\* The commissions of a checkout of total T by user id.
CommissionsPaid(id, T) ==
    /\ L1Of(id) # NoUser
       => CommissionPaid(L1Of(id), Max(1, (T * L1_PERCENT) \div 100))
    /\ L2Of(id) # NoUser
       => CommissionPaid(L2Of(id), Max(1, (T * L2_PERCENT) \div 100))

\* C8 as claimed: every checkout that goes through credits the level-1
\* referrer 5% and the level-2 referrer 2% of the total, at least 1 cap each,
\* each with its own row, and sends each of them a notification.
C8_BothReferrersNotified ==
    [][\A id \in Ids(users) :
          Bought(id)
          => /\ CommissionsPaid(id, SumPrices(CartOf(cart, id)))
             /\ L1Of(id) # NoUser => Notice(L1Of(id)) \in outbox'
             /\ L2Of(id) # NoUser => Notice(L2Of(id)) \in outbox']_vars

\* C8 amended: the same, except that only the level-1 referrer is sent a
\* notification; the level-2 referrer is credited and logged without one.
C8_CommissionEveryCheckout ==
    [][\A id \in Ids(users) :
          Bought(id)
          => /\ CommissionsPaid(id, SumPrices(CartOf(cart, id)))
             /\ L1Of(id) # NoUser => Notice(L1Of(id)) \in outbox'
             /\ L2Of(id) # NoUser => Notice(L2Of(id)) \notin outbox']_vars

\* C8 witness: a user whose referrer has a referrer has just bought, and the
\* level-2 referrer holds a referral_purchase row.
C8_Witness ==
    /\ last.op = "checkout" /\ last.ok
    /\ users[last.user].referrer # NoUser
    /\ users[users[last.user].referrer].referrer # NoUser
    /\ \E k \in 1..Len(history) :
          /\ history[k].user = users[users[last.user].referrer].referrer
          /\ history[k].op = "referral_purchase"

-----------------------------------------------------------------------------
(* Registration properties (SpecReferral) *)

\* The step is a create_user that went through; last'.user is the new user.
Registered ==
    fuel' = fuel - 1 /\ Len(users') = Len(users) + 1 /\ last'.op = "init" /\ last'.ok

\* The referrer attributed to the new user, and that referrer's referrer.
NewReferrer == users'[last'.user].referrer
NewGrand == IF NewReferrer = NoUser THEN NoUser ELSE users[NewReferrer].referrer

\* User r gets exactly one referral_bonus row, of amount a, in this step and
\* the edge r -> new user of the given level.
SignupBonusLogged(r, a, level) ==
    /\ Cardinality(NewRowsOf(r, "referral_bonus")) = 1
    /\ NewAmount(r, "referral_bonus") = a
    /\ [referrer |-> r, referred |-> last'.user, level |-> level] \in referrals'

\* C9 as claimed: create_user with referrer R leaves the new user at 150 caps
\* (100 without referrer), R at exactly +30 with a level-1 edge, and R's
\* referrer G at exactly +15 with a level-2 edge, each credit with its row.
C9_SignupBonusesExact ==
    [][Registered
       => /\ users'[last'.user].bal = (IF NewReferrer # NoUser THEN 150 ELSE 100)
          /\ NewReferrer # NoUser
             => /\ users'[NewReferrer].bal = users[NewReferrer].bal + 30
                /\ SignupBonusLogged(NewReferrer, 30, 1)
          /\ NewGrand # NoUser
             => /\ users'[NewGrand].bal = users[NewGrand].bal + 15
                /\ SignupBonusLogged(NewGrand, 15, 2)]_vars

\* C9 amended: the new user's row starts at 150 caps (100 without referrer),
\* logged as registration_bonus and reported in the response, and the
\* first_beer reward is added to it before the commit; R gets +30 with its
\* row and a level-1 edge, plus whatever achievement rewards the
\* check_achievements(R) call after the commit credits and logs; G gets
\* exactly +15 with its row and a level-2 edge.
C9_SignupBonuses ==
    [][Registered
       => LET S == IF NewReferrer # NoUser THEN 150 ELSE 100
          IN  /\ Cardinality(NewRowsOf(last'.user, "registration_bonus")) = 1
              /\ NewAmount(last'.user, "registration_bonus") = S
              /\ last'.b = S
              /\ users'[last'.user].bal = S + Reward("first_beer")
              /\ NewReferrer # NoUser
                 => /\ users'[NewReferrer].bal =
                          users[NewReferrer].bal + 30 + NewAmount(NewReferrer, "achievement_reward")
                    /\ SignupBonusLogged(NewReferrer, 30, 1)
              /\ NewGrand # NoUser
                 => /\ users'[NewGrand].bal = users[NewGrand].bal + 15
                    /\ SignupBonusLogged(NewGrand, 15, 2)
              /\ NewReferrer = NoUser
                 => \A e \in referrals' : e.referred # last'.user]_vars

\* C9 witness: a user whose referrer has a referrer has just registered, and
\* both edges exist.
C9_Witness ==
    /\ last.op = "init" /\ last.ok
    /\ users[last.user].referrer # NoUser
    /\ users[users[last.user].referrer].referrer # NoUser
    /\ \E e \in referrals : e.referred = last.user /\ e.level = 2

\* The unprocessed pending referrals of the telegram id being registered.
Unprocessed == {p \in pending : p.referred = last'.tg /\ ~p.processed}

\* C10 as claimed: the referrer is the pending row's referrer when an
\* unprocessed pending referral exists, else the user with the passed
\* referrer_uid; the referrer_uid is used whenever no pending referral
\* resolves to a registered user.
C10_ReferrerWithFallback ==
    [][Registered
       => IF Unprocessed = {}
          THEN NewReferrer = UserByUid(users, last'.a)
          ELSE \E p \in Unprocessed :
                  NewReferrer = IF UserByTg(users, p.referrer) # NoUser
                                THEN UserByTg(users, p.referrer)
                                ELSE UserByUid(users, last'.a)]_vars

\* C10 amended: the referrer is the pending row's referrer when an unprocessed
\* pending referral exists, else the user with the passed referrer_uid; at most
\* one referrer is attributed; the referrer_uid is used only when there is no
\* unprocessed pending referral, and a pending row naming an unregistered
\* referrer leaves the new user without referrer.
C10_ReferrerPriority ==
    [][Registered
       => /\ IF Unprocessed = {}
             THEN NewReferrer = UserByUid(users, last'.a)
             ELSE \E p \in Unprocessed : NewReferrer = UserByTg(users, p.referrer)
          /\ {e.referrer : e \in {x \in referrals' : x.referred = last'.user /\ x.level = 1}}
                = (IF NewReferrer = NoUser THEN {} ELSE {NewReferrer})]_vars

\* C10 witness: a user registered with the uid of a registered user while the
\* pending referral named an unregistered telegram id, and has no referrer.
C10_Witness ==
    /\ last.op = "init" /\ last.ok
    /\ last.a # NoUid
    /\ UserByUid(users, last.a) \notin {NoUser, last.user}
    /\ users[last.user].referrer = NoUser
    /\ \E p \in pending :
          p.referred = last.tg /\ p.processed /\ UserByTg(users, p.referrer) = NoUser

-----------------------------------------------------------------------------
(* Self-referral (SpecReferral) *)

\* No edge, user or pending row refers to itself.
NoSelfReference ==
    /\ \A e \in referrals : e.referrer # e.referred
    /\ \A id \in Ids(users) : users[id].referrer # id
    /\ \A p \in pending : p.referrer # p.referred

\* The step is a /start whose deep link carries the sender's own telegram id.
OwnLinkClicked == fuel' = fuel - 1 /\ last'.op = "bot_start" /\ last'.a = last'.tg

\* The step registers a user who has no pending referral and passes the
\* system_uid the registration assigns to them.
RegisteredWithOwnUid ==
    Registered /\ Unprocessed = {} /\ last'.a = users'[last'.user].uid

\* A registration without attribution: no referrer, no edge, no bonus row, and
\* a row created with the base balance, logged and answered as such.
Unattributed ==
    /\ NewReferrer = NoUser
    /\ \A e \in referrals' : e.referred # last'.user
    /\ \A k \in 1..Len(NewRows) : NewRows[k].op # "referral_bonus"
    /\ NewAmount(last'.user, "registration_bonus") = 100
    /\ last'.b = 100

\* C11 as claimed: no edge or user ever refers to itself; a deep link with
\* the sender's own id stores nothing, and a registration naming the
\* registrant's own identity creates no edge, pays no bonus and leaves the
\* user at the base balance of 100.
C11_SelfReferralGivesBase ==
    [][/\ NoSelfReference'
       /\ OwnLinkClicked => pending' = pending
       /\ RegisteredWithOwnUid
          => (Unattributed /\ users'[last'.user].bal = 100)]_vars

\* C11 amended: the same, the base starting balance of 100 being the balance
\* the row is created with, logged as registration_bonus and answered; the
\* first_beer reward is added before the commit, so the user holds 150.
C11_NoSelfReferral ==
    [][/\ NoSelfReference'
       /\ OwnLinkClicked => pending' = pending
       /\ RegisteredWithOwnUid
          => (Unattributed /\ users'[last'.user].bal = 100 + Reward("first_beer"))]_vars

\* C11 witness: a user who had clicked nobody's link registered passing their
\* own system_uid while another user exists, and has no referrer.
C11_Witness ==
    /\ last.op = "init" /\ last.ok
    /\ last.a = users[last.user].uid
    /\ last.user > 1
    /\ users[last.user].referrer = NoUser
    /\ \A p \in pending : p.referred # last.tg

-----------------------------------------------------------------------------
(* Re-registration (SpecInit) *)

\* The step is a create_user call for a telegram id that has a users row.
CreateUserForExisting ==
    /\ fuel' = fuel - 1
    /\ \E r \in req : req' = req \ {r} /\ r.op = "init" /\ r.tg = last'.tg
    /\ last'.op = "init"
    /\ UserByTg(users, last'.tg) # NoUser

\* C12: create_user for a telegram id that already exists answers
\* success=false and changes no table, whatever referrer_uid is passed and
\* whatever pending referral is stored; no referrer is attributed afterwards.
C12_ExistingUserUntouched ==
    [][CreateUserForExisting => (~last'.ok /\ UNCHANGED dbvars)]_vars

\* C12 witness: create_user has just refused a registered telegram id that
\* passed a registered user's uid and has an unprocessed pending referral.
C12_Witness ==
    /\ last.op = "init" /\ ~last.ok /\ last.err = "exists"
    /\ UserByUid(users, last.a) # NoUser
    /\ \E p \in pending : p.referred = last.tg /\ ~p.processed
    /\ users[last.user].referrer = NoUser

-----------------------------------------------------------------------------
(* Pending referrals (SpecInit) *)

\* The pending rows that this step turns from unprocessed to processed.
NewlyProcessed ==
    {p \in pending : ~p.processed /\ p \notin pending'
                     /\ [p EXCEPT !.processed = TRUE] \in pending'}

\* C13: a pending referral is marked processed only by the registration of its
\* referred user, which leaves that user no unprocessed row; a processed row
\* stays processed; referral bonuses are written only by a registration, one
\* per edge, and a telegram id registers once, so a click pays at most once;
\* a user who clicked one registered referrer's link is attributed to that
\* referrer without any referrer_uid.
C13_PendingProcessedOnce ==
    [][/\ \A p \in NewlyProcessed : Registered /\ last'.tg = p.referred
       /\ Registered => \A p \in pending' : p.referred = last'.tg => p.processed
       /\ \A p \in pending : p.processed => p \in pending'
       /\ (\E k \in 1..Len(NewRows) : NewRows[k].op = "referral_bonus")
          => /\ Registered
             /\ \A id \in Ids(users) :
                   Cardinality(NewRowsOf(id, "referral_bonus"))
                      = Cardinality({e \in referrals' : e.referrer = id /\ e.referred = last'.user})
                   /\ Cardinality(NewRowsOf(id, "referral_bonus")) <= 1
       /\ \A i, j \in Ids(users') : users'[i].tg = users'[j].tg => i = j
       /\ \A p \in pending :
             (Registered /\ Unprocessed = {p} /\ UserByTg(users, p.referrer) # NoUser
                /\ last'.a = NoUid)
             => /\ NewReferrer = UserByTg(users, p.referrer)
                /\ Cardinality(NewRowsOf(NewReferrer, "referral_bonus")) = 1]_vars

\* C13 witness: a user who clicked a registered user's link registered without
\* referrer_uid, is attributed to that user, and the row is processed.
C13_Witness ==
    /\ last.op = "init" /\ last.ok /\ last.a = NoUid
    /\ users[last.user].referrer # NoUser
    /\ \E p \in pending :
          /\ p.referred = last.tg /\ p.processed
          /\ p.referrer = users[users[last.user].referrer].tg

-----------------------------------------------------------------------------
(* Achievements *)

\* The codes of the achievements catalog that some rule awards.
Codes == {"first_beer", "sos_helper", "application_sender"}

\* How many achievement_reward rows of user id carry the reward of code (the
\* catalog's rewards differ, so the amount tells the achievement).
RewardRows(id, code) ==
    Cardinality({k \in 1..Len(history) :
                    /\ history[k].user = id
                    /\ history[k].op = "achievement_reward"
                    /\ history[k].amount = Reward(code)})

\* C14: over any sequence of requests, each achievement's reward is credited
\* to a user at most once, also when two rules of one evaluation select the
\* same code.
C14_RewardAtMostOnce ==
    \A id \in Ids(users) : \A code \in Codes :
        RewardRows(id, code) <= 1

\* C15: user_achievements never holds two rows for the same user and
\* achievement, also when evaluations of one user overlap.
C15_OneRowPerAchievement ==
    \A j, k \in 1..Len(earned) : earned[j] = earned[k] => j = k

\* C15 witness: two overlapping evaluations both awarded application_sender to
\* a user, who holds the row.
C15_Witness ==
    \E id \in Ids(users) :
        /\ RewardRows(id, "application_sender") >= 2
        /\ "application_sender" \in EarnedCodes(earned, id)

\* C16: when two evaluations of a user overlap, an achievement the user holds
\* by the time an evaluation commits is not credited or logged by it again.
C16_InterleavedRewardOnce ==
    [][\A id \in Ids(users) : \A code \in EarnedCodes(earned, id) :
          \A k \in 1..Len(NewRows) :
             ~(/\ NewRows[k].user = id
               /\ NewRows[k].op = "achievement_reward"
               /\ NewRows[k].amount = Reward(code))]_vars

-----------------------------------------------------------------------------
(* Chat session (SpecChat) *)

\* The step handles a chat message of user id with the given inputs.
ChatStep(id, inj, expired, rapid, llm) ==
    /\ (sessions[id].blocked /\ expired) => ~rapid
    /\ ~sessions[id].blocked => ~expired
    /\ Chat(id, inj, expired, rapid, llm)

\* C17: a message that check_prompt_injection flags gets the canned
\* deflection with zero caps in every session state, for every balance and
\* level, whatever the provider would answer; the user's row and session are
\* unchanged and the only write is one conversation row of zero cost.
C17_InjectionDeflected ==
    [][\A id \in Ids(users), expired \in BOOLEAN, rapid \in BOOLEAN, llm \in {"ok", "error"} :
          ChatStep(id, TRUE, expired, rapid, llm)
          => /\ last'.ok /\ last'.err = "deflected" /\ last'.a = 0
             /\ convs' = Append(convs, [user |-> id, kind |-> "injection", caps |-> 0])
             /\ UNCHANGED <<users, sessions, history, earned, pending, referrals, cart,
                            purchases, forms, progress, news>>]_vars

\* C17 witness: a flagged message has just been deflected for a user whose
\* session is blocked.
C17_Witness ==
    /\ last.op = "chat" /\ last.err = "deflected"
    /\ sessions[last.user].blocked
    /\ convs # <<>> /\ convs[Len(convs)].kind = "injection"

\* The answered messages of user id: the responses of their session.
Answers(id) == Cardinality({k \in 1..Len(convs) : convs[k].user = id /\ convs[k].kind = "answer"})

\* The step answers a message of user id with the provider's reply.
Answered(id) == Handled("chat", id) /\ last'.ok /\ last'.err = ""

\* C18: counting from message_count 0, the session is blocked on the message
\* with which the run of messages inside the rapid threshold reaches
\* MAX_RAPID_MESSAGES, so after at least MAX_RAPID_MESSAGES - 1 answered
\* ones, and not earlier; an answered rapid message adds one to
\* message_count, and a message after a longer gap is counted from 0 again.
C18_BlockedOnSixthRapid ==
    [][\A id \in Ids(users) :
          /\ (~sessions[id].blocked /\ sessions'[id].blocked)
             => Answers(id) >= MAX_RAPID_MESSAGES - 1
          /\ \A llm \in {"ok", "error"} :
                (ChatStep(id, FALSE, FALSE, TRUE, llm) /\ Answered(id) /\ Answers(id) > 0)
                => sessions'[id].count = sessions[id].count + 1
          /\ \A llm \in {"ok", "error"} :
                (ChatStep(id, FALSE, FALSE, FALSE, llm) /\ Answered(id) /\ Answers(id) > 0)
                => sessions'[id].count <= 1]_vars

\* A rejection with the wait-time error that spends nothing and writes no
\* conversation row.
RejectedToWait ==
    /\ ~last'.ok /\ last'.err = "wait" /\ last'.a = 0
    /\ convs' = convs
    /\ users' = users
    /\ history' = history

\* The step is the one that blocks the session of user id.
BlockTriggered(id) == ~sessions[id].blocked /\ sessions'[id].blocked

\* C19 as claimed: the message that triggers the block and every message sent
\* while the block has not expired are rejected with the wait-time error,
\* whatever the provider would answer, with nothing spent and no conversation
\* row written.
C19_EveryMessageRejected ==
    [][\A id \in Ids(users) :
          /\ BlockTriggered(id) => RejectedToWait
          /\ \A inj \in BOOLEAN, rapid \in BOOLEAN, llm \in {"ok", "error"} :
                (sessions[id].blocked /\ ChatStep(id, inj, FALSE, rapid, llm))
                => (RejectedToWait /\ UNCHANGED dbvars)]_vars

\* C19 amended: the same for every message that check_prompt_injection does
\* not flag; a flagged one is deflected even while the block lasts, which
\* writes its conversation row of zero cost.
C19_BlockedRejected ==
    [][\A id \in Ids(users) :
          /\ BlockTriggered(id) => RejectedToWait
          /\ \A rapid \in BOOLEAN, llm \in {"ok", "error"} :
                (sessions[id].blocked /\ ChatStep(id, FALSE, FALSE, rapid, llm))
                => (RejectedToWait /\ UNCHANGED dbvars)]_vars

\* C19 witness: a message has just been rejected because of a block set by an
\* earlier message.
C19_Witness ==
    /\ last.op = "chat" /\ ~last.ok /\ last.err = "wait"
    /\ sessions[last.user].blocked
    /\ outbox = {}

\* C20: a block is lifted only by a chat message that arrives after its
\* expiry; such a message of a user who can pay (not flagged as injection) is
\* not turned away, whatever the provider answers, and leaves the stored
\* session unblocked with message_count 0 or 1.
C20_LazyExpiryClearsBlock ==
    [][\A id \in Ids(users) :
          /\ (sessions[id].blocked /\ ~sessions'[id].blocked)
             => \E llm \in {"ok", "error"} : ChatStep(id, FALSE, TRUE, FALSE, llm)
          /\ \A llm \in {"ok", "error"} :
                (/\ sessions[id].blocked
                 /\ ChatAllowed(users[id].bal, users[id].level, CAPS_PER_AI_REQUEST)
                 /\ ChatStep(id, FALSE, TRUE, FALSE, llm))
                => /\ last'.ok
                   /\ ~sessions'[id].blocked
                   /\ sessions'[id].count \in {0, 1}]_vars

-----------------------------------------------------------------------------
(* Chat cost and failures (SpecFault, SpecVip) *)

\* The faults that let the handler reach the balance check.
PastConnect == SideOutcomes \ {"db_down"}

VipHandled(id) == Handled("chat", id) /\ users[id].level = "vip"

\* The injection filter, the active block and the rapid-message block apply:
\* a flagged message is deflected, a message during an active block is
\* turned away and changes nothing, and the message that takes the rapid
\* count to MAX_RAPID_MESSAGES blocks the session.
ChecksApply(id, inj, expired, rapid) ==
    /\ inj => last'.err = "deflected"
    /\ ~inj /\ StillBlocked(sessions[id].blocked, expired)
          => ~last'.ok /\ last'.err = "wait" /\ UNCHANGED dbvars
    /\ /\ ~inj /\ ~StillBlocked(sessions[id].blocked, expired)
       /\ rapid /\ Answers(id) >= 1
       /\ sessions[id].count + 1 >= MAX_RAPID_MESSAGES
       => ~last'.ok /\ last'.err = "wait" /\ sessions'[id].blocked

\* C22 as stated: a chat message of a VIP user leaves caps_balance and
\* total_spent_caps as they were and writes no balance_history row.
C22_VipBalanceUntouched ==
    [][\A id \in Ids(users) : VipHandled(id) =>
          \A inj \in BOOLEAN, expired \in BOOLEAN, rapid \in BOOLEAN,
             llm \in {"ok", "error"}, ai_cost \in AiCosts :
                   ChatStepAt(id, inj, expired, rapid, llm, ai_cost, "ok")
                   => /\ users'[id].bal = users[id].bal
                      /\ users'[id].spent = users[id].spent
                      /\ history' = history
                      /\ last'.a = 0]_vars

\* C22: a chat message of a VIP user is never charged, whatever the balance
\* and the message cost: caps_spent is 0, total_spent_caps is unchanged, no
\* ai_cost row is written and the balance changes by nothing but the rewards
\* of the achievement check after the answer, each with its
\* achievement_reward row; the injection filter, the active block and the
\* rapid-message block apply to the message all the same.
C22_VipNeverCharged ==
    [][\A id \in Ids(users) : VipHandled(id) =>
          \A inj \in BOOLEAN, expired \in BOOLEAN, rapid \in BOOLEAN,
             llm \in {"ok", "error"}, ai_cost \in AiCosts :
                   ChatStepAt(id, inj, expired, rapid, llm, ai_cost, "ok")
                   => /\ last'.a = 0
                      /\ users'[id].spent = users[id].spent
                      /\ NewRowsOf(id, "ai_cost") = {}
                      /\ Len(NewRows) = Cardinality(NewRowsOf(id, "achievement_reward"))
                      /\ users'[id].bal = users[id].bal + NewAmount(id, "achievement_reward")
                      /\ ChecksApply(id, inj, expired, rapid)]_vars

\* A VIP user who never paid for a message was answered three times and then
\* blocked for rapid messages.
C22_Witness ==
    /\ last.op = "chat" /\ last.user \in Ids(users)
    /\ users[last.user].level = "vip"
    /\ users[last.user].spent = 0
    /\ Answers(last.user) >= 3
    /\ last.err = "wait" /\ sessions[last.user].blocked

\* The conversation rows with a provider answer that the step adds for id.
NewAnswers(id) ==
    {k \in (Len(convs) + 1)..Len(convs') : convs'[k].user = id /\ convs'[k].kind = "answer"}

\* The charged conversation rows of id and the ai_cost ledger rows of id.
ChargedAnswers(id) ==
    {k \in 1..Len(convs) : convs[k].user = id /\ convs[k].kind = "answer" /\ convs[k].caps > 0}

AiCostRows(id) == {k \in 1..Len(history) : history[k].user = id /\ history[k].op = "ai_cost"}

\* C23: every step either adds, for one answered message, the conversation
\* row, the ai_requests_count increment, the session count and, when the
\* message costs caps, the debit with its one ai_cost row of that amount, or
\* adds none of them; so the charged conversation rows and the ai_cost rows
\* of a user always match in number.
C23_BookkeepingAtomic ==
    [][UNCHANGED <<users, history, convs>> \/ \A id \in Ids(users) :
          /\ Cardinality(NewAnswers(id)) <= 1
          /\ users'[id].ai_req = users[id].ai_req + Cardinality(NewAnswers(id))
          /\ \A k \in NewAnswers(id) :
                /\ users'[id].spent = users[id].spent + convs'[k].caps
                /\ NewAmount(id, "ai_cost") = -convs'[k].caps
                /\ Cardinality(NewRowsOf(id, "ai_cost")) = IF convs'[k].caps > 0 THEN 1 ELSE 0
                /\ sessions'[id].count >= 1
          /\ NewAnswers(id) = {}
                => /\ NewRowsOf(id, "ai_cost") = {}
                   /\ users'[id].spent = users[id].spent
          /\ Cardinality(ChargedAnswers(id))' = Cardinality(AiCostRows(id))']_vars

\* Two messages of a user were answered and charged, one at each message
\* cost, the last one at the higher.
C23_Witness ==
    /\ last.op = "chat" /\ last.ok /\ last.err = "" /\ last.a = 60
    /\ last.user \in Ids(users)
    /\ Cardinality(ChargedAnswers(last.user)) = 2
    /\ Cardinality(AiCostRows(last.user)) = 2
    /\ users[last.user].ai_req = 2
    /\ users[last.user].spent = 65

\* rapid_count as the rapid-response check computes it for a message of id.
RapidCountOf(id, rapid) ==
    IF Answers(id) >= 1 THEN (IF rapid THEN sessions[id].count + 1 ELSE 0)
    ELSE sessions[id].count

\* The message of id gets as far as the provider call.
ReachesProvider(id, expired, rapid, ai_cost) ==
    /\ ~StillBlocked(sessions[id].blocked, expired)
    /\ ChatAllowed(users[id].bal, users[id].level, ai_cost)
    /\ RapidCountOf(id, rapid) < MAX_RAPID_MESSAGES

\* C24: when the provider call times out or answers with a status other than
\* 200, the result is the canned fallback with success true and caps_spent 0,
\* and the balance, the conversation log, ai_requests_count and the stored
\* session are as before the request.
C24_FallbackOnProviderFailure ==
    [][\A id \in Ids(users) : Handled("chat", id) =>
          \A expired \in BOOLEAN, rapid \in BOOLEAN, llm \in {"timeout", "error"},
             ai_cost \in AiCosts :
             /\ ReachesProvider(id, expired, rapid, ai_cost)
             /\ ChatStepAt(id, FALSE, expired, rapid, llm, ai_cost, "ok")
             => /\ last'.ok /\ last'.err = "fallback" /\ last'.a = 0
                /\ users' = users
                /\ convs' = convs
                /\ sessions' = sessions
                /\ UNCHANGED dbvars]_vars

\* The step answers with the temporary-problem result and commits nothing.
FailedClean ==
    /\ ~last'.ok /\ last'.err = "temporary" /\ last'.a = 0
    /\ users' = users
    /\ history' = history
    /\ convs' = convs
    /\ UNCHANGED dbvars

\* C25: a request in which an exception leaves the main flow, at the
\* connection, at the provider call or while the answer is saved, still
\* returns a result: success false with the generic temporary-problem
\* message; it commits no debit, no conversation row and nothing else.
C25_ExceptionGivesTemporaryProblem ==
    [][\A id \in Ids(users) : Handled("chat", id) =>
          /\ ChatStepAt(id, FALSE, FALSE, FALSE, "ok", CAPS_PER_AI_REQUEST, "db_down")
                => FailedClean
          /\ \A expired \in BOOLEAN, rapid \in BOOLEAN, ai_cost \in AiCosts :
                ReachesProvider(id, expired, rapid, ai_cost) =>
                   /\ ChatStepAt(id, FALSE, expired, rapid, "timeout", ai_cost, "ok")
                         => FailedClean
                   /\ ChatStepAt(id, FALSE, expired, rapid, "ok", ai_cost, "write_error")
                         => FailedClean]_vars

\* A user who had been answered and charged before got the temporary-problem
\* result.
C25_Witness ==
    /\ last.op = "chat" /\ ~last.ok /\ last.err = "temporary"
    /\ last.user \in Ids(users)
    /\ Answers(last.user) >= 1
    /\ users[last.user].spent > 0

\* C26: when a side-channel write fails in the database or the achievement
\* check after the answer raises, the provider's answer is still returned
\* with success true and the message's conversation row and debit are
\* committed.
C26_SideFailureKeepsAnswer ==
    [][\A id \in Ids(users) : Handled("chat", id) =>
          \A expired \in BOOLEAN, rapid \in BOOLEAN, ai_cost \in AiCosts,
             side \in {"sql_error", "ach_error"} :
             /\ ReachesProvider(id, expired, rapid, ai_cost)
             /\ ChatStepAt(id, FALSE, expired, rapid, "ok", ai_cost, side)
             => LET caps_cost == CapsCost(users[id].level, ai_cost)
                IN  /\ last'.ok /\ last'.err = "" /\ last'.a = caps_cost
                    /\ Cardinality(NewAnswers(id)) = 1
                    /\ users'[id].spent = users[id].spent + caps_cost
                    /\ NewAmount(id, "ai_cost") = -caps_cost]_vars

-----------------------------------------------------------------------------
(* Failing registrations and checkouts (SpecAbort) *)

\* The content message to the buyer id.
Content(id) == [to |-> users[id].tg, kind |-> "delivery"]

\* The step stores the whole purchase of cart items (total T) by user id.
PurchaseStored(id, items, T) ==
    /\ last'.ok
    /\ CheckoutEffects(id, items, T)
    /\ Cardinality(NewRowsOf(id, "shop_purchase")) = 1
    /\ NewAmount(id, "shop_purchase") = -T
    /\ CommissionsPaid(id, T)

\* C27: a checkout sends the buyer content only when its purchase
\* transaction has been committed, and a checkout whose delivery fails still
\* answers success and stores the debit, the purchase rows, the commissions
\* and the emptied cart like any other.
C27_DeliveryAfterCommit ==
    [][\A id \in Ids(users) : Handled("checkout", id) =>
          LET items == CartOf(cart, id)
              T == SumPrices(items)
          IN  /\ Content(id) \in outbox' => PurchaseStored(id, items, T)
              /\ (items # {} /\ users[id].bal >= T /\ CheckoutAt(id, "delivery_error"))
                 => Content(id) \notin outbox' /\ PurchaseStored(id, items, T)]_vars

\* A referred buyer's checkout went through and the content was not sent.
C27_Witness ==
    /\ last.op = "checkout" /\ last.ok
    /\ users[last.user].referrer # NoUser
    /\ [to |-> last.tg, kind |-> "delivery"] \notin outbox
    /\ \E k \in 1..Len(purchases) : purchases[k].user = last.user
    /\ CartOf(cart, last.user) = {}

\* C28: a checkout that passed its checks, or a registration of a new
\* telegram id, in which a statement fails after the first write and before
\* the commit answers with an error and leaves every table as it was: no
\* balance, ledger row, purchase, user, edge, cart row or pending_referrals
\* row has changed.
C28_FailureRollsBack ==
    [][/\ \A id \in Ids(users) : Handled("checkout", id) =>
             \A fault \in {"write_error", "commission_error"} :
                /\ CartOf(cart, id) # {}
                /\ users[id].bal >= SumPrices(CartOf(cart, id))
                /\ CheckoutAt(id, fault)
                => ~last'.ok /\ UNCHANGED dbvars
       /\ \A tg \in TgIds : (last'.op = "init" /\ last'.tg = tg /\ UserByTg(users, tg) = NoUser) =>
             \A uid \in UidInputs, fault \in {"write_error", "late_error"} :
                ApiInitAt(tg, uid, fault)
                => /\ ~last'.ok
                   /\ UserByTg(users', tg) = NoUser
                   /\ UNCHANGED dbvars]_vars

\* The registration of a user who had followed a referrer's link failed after
\* all its writes, the notices already sent; the link's pending row is still
\* unprocessed.
C28_Witness ==
    /\ last.op = "init" /\ ~last.ok /\ last.err = "internal"
    /\ outbox # {}
    /\ UserByTg(users, last.tg) = NoUser
    /\ \E p \in pending : p.referred = last.tg /\ ~p.processed
    /\ \A k \in 1..Len(history) : history[k].user \in Ids(users)

-----------------------------------------------------------------------------
(* Overlapping requests of one user (SpecOverlap) *)

\* C29: when requests of one user overlap, each having passed its own
\* balance check, no step leaves the user's caps_balance below 0 and no step
\* debits the user more than the balance held when it debits.
C29_OverlapNeverOverdraws ==
    [][\A id \in Ids(users) :
          /\ users'[id].bal >= 0
          /\ users'[id].spent - users[id].spent <= users[id].bal]_vars

-----------------------------------------------------------------------------
(* End-to-end scenario (SpecScenario) *)

\* The stages of the scenario, told by what the tables hold: A is user 1, B
\* is user 2.
ARegistered ==
    /\ Len(users) = 1 /\ users[1].referrer = NoUser
    /\ convs = <<>> /\ purchases = <<>>

BothRegistered == Len(users) = 2 /\ users[1].referrer = NoUser /\ users[2].referrer = 1

BRegistered == BothRegistered /\ convs = <<>> /\ purchases = <<>>

OneChat == <<[user |-> 2, kind |-> "answer", caps |-> CAPS_PER_AI_REQUEST]>>

BChatted == BothRegistered /\ convs = OneChat /\ purchases = <<>>

BBought ==
    /\ BothRegistered /\ convs = OneChat
    /\ purchases = <<[user |-> 2, item |-> 1, price |-> 50]>>

\* What every stage leaves besides the balances: the level-1 edge A -> B and,
\* right after the checkout, B's empty cart.
ScenarioRows ==
    /\ BothRegistered => [referrer |-> 1, referred |-> 2, level |-> 1] \in referrals
    /\ (BBought /\ last.op = "checkout") => CartOf(cart, 2) = {}

\* C30 as stated: A has 100 after registering; B has 150 and A 130 after B
\* registered with A's UID; B has 145 after one chat message; B has 95 and A
\* 133 after B bought the 50-cap item.
C30_ScenarioAsStated ==
    /\ ARegistered => users[1].bal = 100
    /\ BRegistered => users[2].bal = 150 /\ users[1].bal = 130
    /\ BChatted => users[2].bal = 145 /\ users[1].bal = 130
    /\ BBought => users[2].bal = 95 /\ users[1].bal = 133
    /\ ScenarioRows

\* C30: the scenario's balances as the code produces them.  A has 150 after
\* registering (100 and the first_beer reward of 50); B has 200 and A 180
\* after B registered with A's UID, with the level-1 edge A -> B; B has 195
\* after one chat message at cost 5, with one conversation row; after B
\* bought the 50-cap item B has 170 (145 and the application_sender reward of
\* 25 for a first purchase) and A 182 (a commission of 2), with one purchase
\* row and B's cart empty.
C30_Scenario ==
    /\ ARegistered => users[1].bal = 150
    /\ BRegistered => users[2].bal = 200 /\ users[1].bal = 180
    /\ BChatted => users[2].bal = 195 /\ users[1].bal = 180
    /\ BBought => users[2].bal = 170 /\ users[1].bal = 182
    /\ ScenarioRows

\* B has just bought the item, after the chat message.
C30_Witness ==
    /\ BBought
    /\ last.op = "checkout" /\ last.ok /\ last.user = 2
    /\ users[2].ai_req = 1

-----------------------------------------------------------------------------
(* Referral edges (Spec) *)

\* The referrals rows of the given level whose referred party is id.
EdgesTo(rf, id, level) == {r \in rf : r.referred = id /\ r.level = level}

\* The user a level-2 edge to id has to name: the referrer's referrer.
GrandOf(us, id) ==
    IF us[id].referrer = NoUser THEN NoUser ELSE us[us[id].referrer].referrer

\* The referrals table agrees with users.referrer_id.
EdgesConsistent(us, rf) ==
    /\ \A r \in rf : r.referred \in Ids(us) /\ r.referrer \in Ids(us)
    /\ \A id \in Ids(us) :
          /\ Cardinality(EdgesTo(rf, id, 1)) <= 1
          /\ Cardinality(EdgesTo(rf, id, 2)) <= 1
          /\ (EdgesTo(rf, id, 1) # {}) <=> (us[id].referrer # NoUser)
          /\ \A r \in EdgesTo(rf, id, 1) : r.referrer = us[id].referrer
          /\ (EdgesTo(rf, id, 2) # {}) <=> (GrandOf(us, id) # NoUser)
          /\ \A r \in EdgesTo(rf, id, 2) : r.referrer = GrandOf(us, id)
    /\ \A r1 \in rf, r2 \in rf :
          (r1.referrer = r2.referrer /\ r1.referred = r2.referred) => r1 = r2

\* C31: referral edges are created only at registration (a step that changes
\* the referrals table is a registration, keeps the old edges and adds edges
\* to the new user only), and after every step the table agrees with
\* users.referrer_id: a level-1 edge exactly when referrer_id is set, naming
\* it; a level-2 edge exactly when that referrer has a referrer, naming it; at
\* most one edge per level and referred user; no two edges with the same
\* (referrer_id, referred_id).
C31_EdgesFollowReferrer ==
    [][/\ EdgesConsistent(users', referrals')
       /\ referrals' # referrals =>
             /\ Registered
             /\ referrals \subseteq referrals'
             /\ \A r \in referrals' \ referrals : r.referred = last'.user]_vars

\* Three users in a chain: the third has a level-1 edge from the second and a
\* level-2 edge from the first.
C31_Witness ==
    /\ Len(users) = 3
    /\ users[3].referrer = 2
    /\ users[2].referrer = 1
    /\ [referrer |-> 2, referred |-> 3, level |-> 1] \in referrals
    /\ [referrer |-> 1, referred |-> 3, level |-> 2] \in referrals

-----------------------------------------------------------------------------
(* System uids (SpecUid) *)

\* C32: after every step the system_uids of the registered users are pairwise
\* distinct, increase strictly in registration order and do not exceed
\* MAX_UID, the first user of an empty table gets STARTING_UID, also when the
\* registrations of different telegram ids overlap; and when the next uid
\* would exceed MAX_UID no step changes the database and a registration
\* request is answered with the limit error.
C32_UidsDistinctIncreasing ==
    [][/\ \A i \in Ids(users'), j \in Ids(users') : i < j => users'[i].uid < users'[j].uid
       /\ \A i \in Ids(users') : users'[i].uid <= MAX_UID
       /\ (users = <<>> /\ users' # <<>>) => users'[1].uid = STARTING_UID
       /\ NextUid(users) > MAX_UID =>
             /\ UNCHANGED dbvars
             /\ req' = req => /\ last' = Resp("init", last'.tg, NoUser, FALSE, "limit", last'.a, 0)
                              /\ outbox' = {}]_vars

\* Two registrations both read MAX_UID as the next number; one took it and
\* the other has just failed on its INSERT.
C32_Witness ==
    /\ Len(users) = 2
    /\ users[2].uid = MAX_UID
    /\ last.op = "init"
    /\ last.err = "internal"
    /\ last.tg \notin {users[1].tg, users[2].tg}

-----------------------------------------------------------------------------
(* Rate limiter (SpecLimit) *)

\* The calls with the key that returned true at a time in from .. to.
Accepted(cs, key, from, to) ==
    {i \in 1..Len(cs) : cs[i].key = key /\ cs[i].ok /\ from <= cs[i].t /\ cs[i].t <= to}

\* The step is a check_rate_limit call with the key.
Called(key) == calls' # calls /\ calls'[Len(calls')].key = key

\* C33: check_rate_limit(key, N, W) returns true exactly when fewer than N
\* earlier calls with the same key returned true less than W seconds ago, so
\* that rejected calls, calls older than the window and calls with other keys
\* do not count; a rejected call appends no timestamp, a call leaves the
\* lists of the other keys alone, and in every window of W seconds at most N
\* calls with one key have returned true.
C33_AtMostNPerWindow ==
    [][\A key \in RateKeys :
          /\ \A a \in 0..now' :
                Cardinality(Accepted(calls', key, a, a + WindowSeconds(key) - 1))
                   <= MaxRequests(key)
          /\ Called(key) =>
                /\ calls'[Len(calls')].ok
                      <=> Cardinality(Accepted(calls, key, now - WindowSeconds(key) + 1, now))
                             < MaxRequests(key)
                /\ ~calls'[Len(calls')].ok =>
                      Len(rate_limits'[key]) <= Len(rate_limits[key])
                /\ \A other \in RateKeys \ {key} : rate_limits'[other] = rate_limits[other]]_vars

\* A key had a call rejected and, after the window, a later call accepted,
\* while the other key was in use too.
C33_Witness ==
    /\ \E i \in 1..Len(calls), j \in 1..Len(calls) :
          /\ i < j
          /\ calls[i].key = "ai:101" /\ ~calls[i].ok
          /\ calls[j].key = "ai:101" /\ calls[j].ok
    /\ \E i \in 1..Len(calls) : calls[i].key = "form:101"

-----------------------------------------------------------------------------
(* Balance and totals (Spec) *)

\* C34: after every step, every user's caps_balance equals the starting
\* balance of create_user (150 with a referrer_id, 100 without) plus
\* total_earned_caps minus total_spent_caps; and a step changes a user's
\* balance only together with the totals: neither total decreases, and the
\* balance moves by what total_earned_caps gained minus what
\* total_spent_caps gained.
C34_BalanceIsStartPlusTotals ==
    [][\A id \in Ids(users') :
          /\ users'[id].bal = StartingBalance(users'[id].referrer)
                                 + users'[id].earned - users'[id].spent
          /\ id \in Ids(users) =>
                /\ users'[id].earned >= users[id].earned
                /\ users'[id].spent >= users[id].spent
                /\ users'[id].bal - users[id].bal =
                      (users'[id].earned - users[id].earned)
                         - (users'[id].spent - users[id].spent)]_vars

\* A referred user who has spent caps and has earned more than the
\* first_beer reward.
C34_Witness ==
    \E id \in Ids(users) :
       /\ users[id].referrer # NoUser
       /\ users[id].spent > 0
       /\ users[id].earned > Reward("first_beer")

-----------------------------------------------------------------------------
(* The referrer graph (SpecReferral) *)

RECURSIVE Up(_, _, _)
\* The user reached from id by following referrer_id k times (NoUser when
\* the chain ends before).
Up(us, id, k) ==
    IF k = 0 \/ id = NoUser THEN id ELSE Up(us, us[id].referrer, k - 1)

\* No user is reached from itself along referrer_id.
Acyclic(us) == \A id \in Ids(us), k \in 1..Len(us) : Up(us, id, k) # id

\* C35: a step never changes the referrer_id of a user that exists already,
\* whatever deep links the user clicks; after every step each referrer_id
\* that is set names a user with a smaller id (one registered earlier), and
\* following referrer_id never leads back to the same user.
C35_ReferrerFixedAndEarlier ==
    [][/\ \A id \in Ids(users) :
             id \in Ids(users') /\ users'[id].referrer = users[id].referrer
       /\ \A id \in Ids(users') :
             users'[id].referrer # NoUser =>
                users'[id].referrer \in Ids(users') /\ users'[id].referrer < id
       /\ Acyclic(users')]_vars

\* A user registered without a referrer, then clicked the deep link of a
\* registered user, then opened the Mini App again: still no referrer.
C35_Witness ==
    /\ last.op = "init_exists"
    /\ users[last.user].referrer = NoUser
    /\ \E p \in pending :
          /\ p.referred = last.tg
          /\ ~p.processed
          /\ UserByTg(users, p.referrer) # NoUser
          /\ UserByTg(users, p.referrer) # last.user

-----------------------------------------------------------------------------
(* Stored AI session (SpecSession) *)

\* C36: after every step, each session's message_count is between 0 and
\* MAX_RAPID_MESSAGES - 1, and a blocked session has block_expires_at set
\* and message_count 0; the admin unblock leaves the session unblocked with
\* block_expires_at empty and message_count 0, and so does a chat message
\* that ends a block, up to the count of that message itself.
C36_SessionWellFormed ==
    [][\A id \in Ids(users') :
          /\ sessions'[id].count \in 0..(MAX_RAPID_MESSAGES - 1)
          /\ sessions'[id].blocked => sessions'[id].expires /\ sessions'[id].count = 0
          /\ Handled("ai_unblock", id) => sessions'[id] = NewSession
          /\ (id \in Ids(users) /\ Handled("chat", id)
                /\ sessions[id].blocked /\ ~sessions'[id].blocked)
             => ~sessions'[id].expires /\ sessions'[id].count <= 1]_vars

-----------------------------------------------------------------------------
(* Lesson rewards (SpecLesson) *)

\* The lesson_reward rows of user id in the ledger h.
LessonRewardRows(h, id) ==
    {k \in 1..Len(h) : h[k].user = id /\ h[k].op = "lesson_reward"}

\* C37: a user has at most one lesson_reward row per completed lesson and
\* has been credited LESSON_REWARD for each such row, also when completion
\* requests of the user overlap; and a step that finds the lesson completed
\* already pays no lesson reward and, when it is a completion request,
\* changes nothing.
C37_LessonRewardOnce ==
    [][\A id \in Ids(users') :
          /\ Cardinality(LessonRewardRows(history', id))
                <= Cardinality({l \in Lessons : <<id, l>> \in progress'})
          /\ \A l \in Lessons :
                (id \in Ids(users) /\ <<id, l>> \in progress) =>
                   /\ NewRowsOf(id, "lesson_reward") = {}
                   /\ Handled("lesson", id) => UNCHANGED dbvars]_vars

-----------------------------------------------------------------------------
(* Authenticated requests (SpecAuth) *)

\* The step leaves the account, the AI session and the conversation log of
\* user id as they are.
Untouched(id) ==
    /\ users'[id] = users[id]
    /\ sessions'[id] = sessions[id]
    /\ NewRowsOf(id, "ai_cost") = {} /\ NewRowsOf(id, "news_subscription") = {}
    /\ NewRowsOf(id, "lesson_reward") = {}
    /\ \A k \in (Len(convs) + 1)..Len(convs') : convs'[k].user # id

\* The step does not debit user id and buys nothing for them.
NotDebited(id) ==
    /\ users'[id].spent = users[id].spent
    /\ users'[id].bal >= users[id].bal
    /\ \A k \in (Len(purchases) + 1)..Len(purchases') : purchases'[k].user # id

\* C38: a chat, news-subscribe or lesson-completion request authenticated
\* with the init_data of telegram user X leaves untouched the account, AI
\* session and conversation log of the user of any other telegram id given
\* in the body, and a checkout does not debit that user.
C38_OnlyOwnAccount ==
    [][\A auth \in AuthTokens \ {NoAuth} : \A tg \in BodyIds \ {auth} :
          LET id == UserByTg(users, tg)
          IN  id # NoUser =>
                 /\ (\/ \E inj \in BOOLEAN : ApiAiChat(auth, tg, inj, FALSE, FALSE, "ok")
                     \/ ApiNewsSubscribe(auth, tg)
                     \/ \E l \in Lessons, passed \in BOOLEAN :
                           ApiUniversityComplete(auth, tg, l, passed))
                    => Untouched(id)
                 /\ ApiShopCheckout(auth, tg) => NotDebited(id)]_vars

-----------------------------------------------------------------------------
(* Cart rows and purchases (SpecOverlap) *)

\* The items of the user_cart rows of user id that the step removes.
RemovedItems(id) == {c[2] : c \in {x \in cart \ cart' : x[1] = id}}

\* C39: a checkout step of user id that removes cart rows inserts, for every
\* row it removes, a purchase row of that user and item at the item's price,
\* and debits the user by the prices of the removed rows, also when a
\* cart/add of the user was committed after the checkout read the cart.
C39_RemovedRowsArePurchased ==
    [][\A id \in Ids(users) :
          (Handled("checkout", id) /\ RemovedItems(id) # {}) =>
             /\ \A i \in RemovedItems(id) :
                   \E k \in (Len(purchases) + 1)..Len(purchases') :
                      /\ purchases'[k].user = id
                      /\ purchases'[k].item = i
                      /\ purchases'[k].price = Price(i)
             /\ users'[id].spent - users[id].spent = SumPrices(RemovedItems(id))]_vars

====
